---- MODULE Spec2Model ----
(***************************************************************************)
(* Genji: the deferred-generation rendering pipeline.                      *)
(*                                                                         *)
(* A Template is built once (its source is scanned for gen() call sites,   *)
(* each filter pipeline is recorded and the call is rewritten to carry a   *)
(* __source_id) and rendered many times.  A render binds a fresh           *)
(* RenderContext to the ambient context variable, evaluates the template   *)
(* (gen() registers prompts and returns placeholders), sends one batch to  *)
(* the backend, and replaces the placeholders by the filtered responses.   *)
(*                                                                         *)
(* Text is a sequence of tokens.  A token is a short piece of text that    *)
(* the operations of the model never split: a character, a response word   *)
(* ("r1"), or a whole placeholder ("__GENJI_GEN_0__").                     *)
(* Optional values (T | None) are sequences of length 0 (None) or 1.       *)
(***************************************************************************)
EXTENDS Integers, Sequences, FiniteSets, TLC

(***************************************************************************)
(* Bounds of the model.                                                    *)
(***************************************************************************)
\* Longest template source, counted in nodes (literals, variables, calls).
MaxNodes == 2
\* Longest list a template loop iterates over.
MaxItems == 2
\* Deepest nesting of parentheses inside the arguments of a gen() call.
MaxDepth == 2
\* Longest generated text, counted in characters, where texts are enumerated.
MaxText == 2
\* The largest length argument given to truncate.
MaxLength == 3
\* The largest number of pieces in a file name.
MaxPieces == 3
\* The largest number of requests in one batch given to a backend.
MaxBatch == 3

None == <<>>
Some(v) == <<v>>

RECURSIVE Flatten(_)
\* The concatenation of a sequence of texts.
Flatten(ss) == IF ss = <<>> THEN <<>> ELSE Head(ss) \o Flatten(Tail(ss))

(***************************************************************************)
(* context.py: placeholders, CollectedPrompt, RenderContext                *)
(***************************************************************************)
\* f"__GENJI_GEN_{self.counter}__"
Placeholder(counter) == "__GENJI_GEN_" \o ToString(counter) \o "__"

\* CollectedPrompt.to_request with the stop sequences left out.
to_request_drops_stop(p) ==
    [prompt |-> p.prompt, max_tokens |-> p.max_tokens,
     temperature |-> p.temperature, stop |-> None]

\* CollectedPrompt.to_request
to_request(p) ==
    [prompt |-> p.prompt, max_tokens |-> p.max_tokens,
     temperature |-> p.temperature, stop |-> p.stop]

\* RenderContext(variables=context): counter 0, no prompts, nothing generated.
RenderContext(variables) ==
    [counter |-> 0, prompts |-> <<>>, generated |-> <<>>, variables |-> variables]

\* RenderContext.collect_prompt, a bug variant: the counter is left as it is.
collect_prompt_keeps_counter(ctx, prompt, max_tokens, temperature, stop, source_id) ==
    [ctx EXCEPT
        !.prompts = Append(@, [placeholder |-> Placeholder(ctx.counter),
                               prompt |-> prompt,
                               source_id |-> source_id,
                               max_tokens |-> max_tokens,
                               temperature |-> temperature,
                               stop |-> stop])]

\* RenderContext.collect_prompt: the context after the call; the placeholder
\* returned is Placeholder(ctx.counter).
collect_prompt(ctx, prompt, max_tokens, temperature, stop, source_id) ==
    [ctx EXCEPT
        !.counter = @ + 1,
        !.prompts = Append(@, [placeholder |-> Placeholder(ctx.counter),
                               prompt |-> prompt,
                               source_id |-> source_id,
                               max_tokens |-> max_tokens,
                               temperature |-> temperature,
                               stop |-> stop])]

\* RenderContext.set_generated: generated[placeholder] = content.  The dict is
\* a sequence of (placeholder, content) pairs with one pair per key.
set_generated(generated, placeholder, content) ==
    IF \E i \in 1..Len(generated) : generated[i][1] = placeholder
    THEN [i \in 1..Len(generated) |->
            IF generated[i][1] = placeholder
            THEN <<placeholder, content>> ELSE generated[i]]
    ELSE Append(generated, <<placeholder, content>>)

\* placeholder in generated
has_generated(generated, placeholder) ==
    \E i \in 1..Len(generated) : generated[i][1] = placeholder

\* RenderContext.get_generated (defined when the key is present; the caller
\* raises KeyError otherwise).
get_generated(generated, placeholder) ==
    generated[CHOOSE i \in 1..Len(generated) : generated[i][1] = placeholder][2]

(***************************************************************************)
(* filters.py                                                              *)
(***************************************************************************)
Quote == "\""
Backslash == "\\"

\* str.upper() of one token.
UpperTok(t) ==
    CASE t = "a" -> "A"
      [] t = "v" -> "V"
      [] t = "n" -> "N"
      [] t = "o" -> "O"
      [] t = "x" -> "X"
      [] \E i \in 0..9 : t = "r" \o ToString(i) ->
            "R" \o ToString(CHOOSE i \in 0..9 : t = "r" \o ToString(i))
      [] OTHER -> t

\* str.lower() of one token; a placeholder is upper-case text.
LowerTok(t) ==
    CASE t = "A" -> "a"
      [] t = "V" -> "v"
      [] t = "N" -> "n"
      [] t = "O" -> "o"
      [] t = "X" -> "x"
      [] \E i \in 0..9 : t = "R" \o ToString(i) ->
            "r" \o ToString(CHOOSE i \in 0..9 : t = "R" \o ToString(i))
      [] \E i \in 0..9 : t = Placeholder(i) ->
            "__genji_gen_" \o ToString(CHOOSE i \in 0..9 : t = Placeholder(i)) \o "__"
      [] OTHER -> t

\* json.dumps escaping of one token (ensure_ascii=False).
JsonEscapeTok(t) ==
    CASE t = Quote -> <<Backslash, Quote>>
      [] t = Backslash -> <<Backslash, Backslash>>
      [] t = "\n" -> <<Backslash, "n">>
      [] t = "\r" -> <<Backslash, "r">>
      [] t = "\t" -> <<Backslash, "t">>
      [] OTHER -> <<t>>

\* json_filter, a bug variant: the text between quotes, nothing escaped.
json_filter_unescaped(value) == <<Quote>> \o value \o <<Quote>>

\* json_filter: the JSON string literal, surrounding quotes included.
json_filter(value) == <<Quote>> \o Flatten([i \in 1..Len(value) |-> JsonEscapeTok(value[i])]) \o <<Quote>>

\* The character the JSON escape made of a backslash and token t stands
\* for, "" when there is no such escape.
JsonUnescapeTok(t) ==
    CASE t = Quote -> Quote
      [] t = Backslash -> Backslash
      [] t = "/" -> "/"
      [] t = "n" -> "\n"
      [] t = "r" -> "\r"
      [] t = "t" -> "\t"
      [] OTHER -> ""

RECURSIVE JsonChars(_, _, _)
\* The characters of a JSON string read from s[i] on, s being what stands
\* between the quotes: [ok, text].  A bare quote, a bare control character
\* and an unknown escape are errors.
JsonChars(s, i, acc) ==
    IF i > Len(s) THEN [ok |-> TRUE, text |-> acc]
    ELSE IF s[i] = Quote \/ s[i] \in {"\n", "\r", "\t"}
    THEN [ok |-> FALSE, text |-> <<>>]
    ELSE IF s[i] = Backslash
    THEN IF i = Len(s) \/ JsonUnescapeTok(s[i + 1]) = ""
         THEN [ok |-> FALSE, text |-> <<>>]
         ELSE JsonChars(s, i + 2, Append(acc, JsonUnescapeTok(s[i + 1])))
    ELSE JsonChars(s, i + 1, Append(acc, s[i]))

\* A JSON string literal read whole: [ok, text].
JsonString(doc) ==
    IF Len(doc) >= 2 /\ doc[1] = Quote /\ doc[Len(doc)] = Quote
    THEN JsonChars(SubSeq(doc, 2, Len(doc) - 1), 1, <<>>)
    ELSE [ok |-> FALSE, text |-> <<>>]

\* The opening of the one-key object {"k": <value>} as one token, and its
\* closing.
ObjectOpen == "{\"k\":"
ObjectClose == "}"

\* json.loads(doc) on the documents the texts of the model can spell, a
\* string or the object {"k": string}: [ok, value], the value a string
\* [kind |-> "str", text] or an object [kind |-> "obj", text] whose key k
\* holds the text.
json_loads(doc) ==
    IF JsonString(doc).ok
    THEN [ok |-> TRUE, value |-> [kind |-> "str", text |-> JsonString(doc).text]]
    ELSE IF Len(doc) >= 2 /\ doc[1] = ObjectOpen /\ doc[Len(doc)] = ObjectClose
              /\ JsonString(SubSeq(doc, 2, Len(doc) - 1)).ok
    THEN [ok |-> TRUE,
          value |-> [kind |-> "obj",
                     text |-> JsonString(SubSeq(doc, 2, Len(doc) - 1)).text]]
    ELSE [ok |-> FALSE, value |-> [kind |-> "", text |-> <<>>]]

\* s.replace(old, new) for a one-character old: every occurrence, left to
\* right, in one pass over s.
str_replace(s, old, new) ==
    Flatten([i \in 1..Len(s) |-> IF s[i] = old THEN new ELSE <<s[i]>>])

\* The entities html.escape and xml_filter write, character by character.
AmpEntity == <<"&", "a", "m", "p", ";">>
LtEntity == <<"&", "l", "t", ";">>
GtEntity == <<"&", "g", "t", ";">>
QuotEntity == <<"&", "q", "u", "o", "t", ";">>
AposEntity == <<"&", "a", "p", "o", "s", ";">>
HexAposEntity == <<"&", "#", "x", "2", "7", ";">>

\* html_filter: html.escape(str(value), quote=True), which replaces & first,
\* then < and >, then the two quotes.
html_filter(value) ==
    LET s1 == str_replace(value, "&", AmpEntity)
        s2 == str_replace(s1, "<", LtEntity)
        s3 == str_replace(s2, ">", GtEntity)
        s4 == str_replace(s3, Quote, QuotEntity)
    IN  str_replace(s4, "'", HexAposEntity)

\* xml_filter, a bug variant: & is replaced after the other four, so the &
\* of the entities just written is escaped again.
xml_filter_amp_last(value) ==
    LET s1 == str_replace(value, "<", LtEntity)
        s2 == str_replace(s1, ">", GtEntity)
        s3 == str_replace(s2, Quote, QuotEntity)
        s4 == str_replace(s3, "'", AposEntity)
    IN  str_replace(s4, "&", AmpEntity)

\* xml_filter: the five replacements, in the order of the code.
xml_filter(value) ==
    LET s1 == str_replace(value, "&", AmpEntity)
        s2 == str_replace(s1, "<", LtEntity)
        s3 == str_replace(s2, ">", GtEntity)
        s4 == str_replace(s3, Quote, QuotEntity)
    IN  str_replace(s4, "'", AposEntity)

\* The literals of line 92, character by character.
YamlReserved ==
    {<<"t", "r", "u", "e">>, <<"f", "a", "l", "s", "e">>, <<"n", "u", "l", "l">>,
     <<"y", "e", "s">>, <<"n", "o">>, <<"o", "n">>, <<"o", "f", "f">>}
Digits == {ToString(i) : i \in 0..9}

\* needs_quoting, a bug variant: the test for a leading hyphen is missing.
yaml_needs_quoting_no_hyphen(s) ==
    \/ s # <<>> /\ s[1] \in {" ", "\t"}
    \/ s # <<>> /\ s[Len(s)] \in {" ", "\t"}
    \/ \E i \in 1..Len(s) : s[i] \in {"\n", ":", "#"}
    \/ [i \in 1..Len(s) |-> LowerTok(s[i])] \in YamlReserved
    \/ s # <<>> /\ s[1] \in Digits

\* The needs_quoting test of yaml_filter.
yaml_needs_quoting(s) ==
    \/ s # <<>> /\ s[1] \in {" ", "\t"}
    \/ s # <<>> /\ s[Len(s)] \in {" ", "\t"}
    \/ \E i \in 1..Len(s) : s[i] \in {"\n", ":", "#"}
    \/ s # <<>> /\ s[1] = "-"
    \/ [i \in 1..Len(s) |-> LowerTok(s[i])] \in YamlReserved
    \/ s # <<>> /\ s[1] \in Digits

\* The five replacements of lines 99-103, backslash first.
yaml_escape(value) ==
    LET s1 == str_replace(value, Backslash, <<Backslash, Backslash>>)
        s2 == str_replace(s1, Quote, <<Backslash, Quote>>)
        s3 == str_replace(s2, "\n", <<Backslash, "n">>)
        s4 == str_replace(s3, "\r", <<Backslash, "r">>)
    IN  str_replace(s4, "\t", <<Backslash, "t">>)

\* yaml_filter
yaml_filter(value) ==
    IF yaml_needs_quoting(value) \/ value = <<>>
    THEN <<Quote>> \o yaml_escape(value) \o <<Quote>>
    ELSE value

\* raw_filter
raw_filter(value) == value

Whitespace == {" ", "\t", "\n", "\r"}

RECURSIVE lstrip(_)
lstrip(s) == IF s # <<>> /\ Head(s) \in Whitespace THEN lstrip(Tail(s)) ELSE s

RECURSIVE rstrip(_)
rstrip(s) ==
    IF s # <<>> /\ s[Len(s)] \in Whitespace
    THEN rstrip(SubSeq(s, 1, Len(s) - 1)) ELSE s

\* strip_filter
strip_filter(value) == rstrip(lstrip(value))

\* lower_filter
lower_filter(value) == [i \in 1..Len(value) |-> LowerTok(value[i])]

\* upper_filter
upper_filter(value) == [i \in 1..Len(value) |-> UpperTok(value[i])]

\* The default length of truncate_filter.
TruncateDefaultLength == 255
\* The default suffix of truncate_filter.
TruncateDefaultSuffix == <<".", ".", ".">>

\* truncate_filter, a bug variant: the suffix is appended to the first length
\* characters, not counted in them.
truncate_filter_suffix_on_top(value, length, suffix) ==
    IF length < Len(suffix) THEN [ok |-> FALSE, text |-> <<>>]
    ELSE IF Len(value) <= length THEN [ok |-> TRUE, text |-> value]
    ELSE [ok |-> TRUE, text |-> SubSeq(value, 1, length) \o suffix]

\* truncate_filter(value, length, suffix): [ok, text]; ok is FALSE when a
\* FilterError is raised.
truncate_filter(value, length, suffix) ==
    IF length < Len(suffix) THEN [ok |-> FALSE, text |-> <<>>]
    ELSE IF Len(value) <= length THEN [ok |-> TRUE, text |-> value]
    ELSE [ok |-> TRUE, text |-> SubSeq(value, 1, length - Len(suffix)) \o suffix]

\* The keys of the FILTERS registry as the module defines it.
FILTERS ==
    {"json", "html", "xml", "yaml", "raw", "strip", "lower", "upper", "truncate"}

\* The keys of the FILTERS dict at this moment: a module-level dict, to which
\* a caller can add a filter of its own.
VARIABLE registry

\* The name under which a caller registers its own filter.
UserFilter == "strict"

\* The caller's filter: a validator that raises ValueError on a text with an
\* "x" in it and returns every other text as it is.
user_filter(value) ==
    IF \E i \in 1..Len(value) : value[i] = "x"
    THEN [ok |-> FALSE, text |-> <<>>]
    ELSE [ok |-> TRUE, text |-> value]

\* FILTERS[filter_name](content): the registry's function called with the
\* content as its only argument.
ApplyFilter(filter_name, content) ==
    CASE filter_name = "json" -> [ok |-> TRUE, text |-> json_filter(content)]
      [] filter_name = "html" -> [ok |-> TRUE, text |-> html_filter(content)]
      [] filter_name = "xml" -> [ok |-> TRUE, text |-> xml_filter(content)]
      [] filter_name = "yaml" -> [ok |-> TRUE, text |-> yaml_filter(content)]
      [] filter_name = "raw" -> [ok |-> TRUE, text |-> raw_filter(content)]
      [] filter_name = "strip" -> [ok |-> TRUE, text |-> strip_filter(content)]
      [] filter_name = "lower" -> [ok |-> TRUE, text |-> lower_filter(content)]
      [] filter_name = "upper" -> [ok |-> TRUE, text |-> upper_filter(content)]
      [] filter_name = "truncate" ->
            truncate_filter(content, TruncateDefaultLength, TruncateDefaultSuffix)
      [] filter_name = UserFilter -> user_filter(content)

(***************************************************************************)
(* exceptions.py and the exception classes the pipeline tells apart        *)
(***************************************************************************)
\* Subclasses of jinja2.TemplateError.
JinjaTemplateErrors == {"UndefinedError", "TemplateSyntaxError"}
\* Subclasses of BaseException that are not subclasses of Exception.
BaseOnlyExceptions == {"CancelledError", "KeyboardInterrupt"}

\* isinstance(e, jinja2.TemplateError)
IsTemplateError(kind) == kind \in JinjaTemplateErrors
\* isinstance(e, Exception)
IsException(kind) == kind \notin BaseOnlyExceptions

\* No exception.
NoError == [kind |-> "", msg |-> <<>>, cause |-> ""]
\* An exception of class kind with the message msg, raised directly.
Exc(kind, msg) == [kind |-> kind, msg |-> msg, cause |-> ""]
\* raise TemplateRenderError(f"{prefix}{e}") from e
RenderErrorFrom(prefix, e) ==
    [kind |-> "TemplateRenderError", msg |-> <<prefix>> \o e.msg, cause |-> e.kind]

(***************************************************************************)
(* The template source.  A source is a sequence of nodes: literal text, a  *)
(* variable expression {{ name }}, an expression that raises a TypeError,  *)
(* or a gen() call site {{ gen(args) | pipeline }}, possibly inside        *)
(* {% for item in items %}.  args is the text between gen( and its closing *)
(* parenthesis, cut into the tokens "p" (anything but a parenthesis), "("  *)
(* and ")".                                                                *)
(***************************************************************************)
Node(kind, text, args, prompt, params, pipeline, loop) ==
    [kind |-> kind, text |-> text, args |-> args, prompt |-> prompt,
     max_tokens |-> params.max_tokens, temperature |-> params.temperature,
     stop |-> params.stop, pipeline |-> pipeline, loop |-> loop,
     source_id |-> None]

NoParams == [max_tokens |-> None, temperature |-> None, stop |-> None]
\* gen(..., max_tokens=5, temperature=0, stop=["s"])
SomeParams == [max_tokens |-> Some(5), temperature |-> Some(0), stop |-> Some(<<"s">>)]

Lit(text) == Node("lit", text, <<>>, <<>>, NoParams, <<>>, FALSE)
VarNode == Node("var", "", <<>>, <<>>, NoParams, <<>>, FALSE)
BadNode == Node("bad", "", <<>>, <<>>, NoParams, <<>>, FALSE)

\* One entry of a pipeline as written: | name or | name(arg).
Pipe(name) == [name |-> name, arg |-> None]
\* | name(arg): arg is the text between the parentheses, cut into tokens.
PipeArg(name, arg) == [name |-> name, arg |-> Some(arg)]
RECURSIVE Parens(_, _)
\* n copies of token t.
Parens(t, n) == IF n = 0 THEN <<>> ELSE <<t>> \o Parens(t, n - 1)

\* The argument text p((...p...)) with d nested pairs of parentheses after a
\* leading name: depth 0 is "p", depth 1 is p(p), depth 2 is p((p)).
ArgsOfDepth(d) ==
    IF d = 0 THEN <<"p">>
    ELSE <<"p">> \o Parens("(", d) \o <<"p">> \o Parens(")", d)

\* A call site {{ gen(<args>) | <pipeline> }}; its prompt names the site.
Site(d, prompt, params, pipeline, loop) ==
    Node("gen", "", ArgsOfDepth(d), prompt, params, pipeline, loop)

(***************************************************************************)
(* template.py: Template._extract_and_inject_filters                       *)
(***************************************************************************)
\* No ")" among s[from..to].
NoClose(s, from, to) == \A i \in from..to : s[i] # ")"

RECURSIVE MatchGroups(_, _)
\* s[i..] is in the language of (?:\([^)]*\)[^)]*)* .
MatchGroups(s, i) ==
    \/ i = Len(s) + 1
    \/ /\ i <= Len(s)
       /\ s[i] = "("
       /\ \E j \in (i + 1)..Len(s) :
            /\ s[j] = ")"
            /\ NoClose(s, i + 1, j - 1)
            /\ \E k \in (j + 1)..(Len(s) + 1) :
                 NoClose(s, j + 1, k - 1) /\ MatchGroups(s, k)

\* The whole argument text matches group 1 of the pattern,
\* [^)]+(?:\([^)]*\)[^)]*)* , so that the pattern matches the call site.
PatternMatches(args) ==
    \E i \in 2..(Len(args) + 1) : NoClose(args, 1, i - 1) /\ MatchGroups(args, i)

\* match.group(2): the pipeline as it stands in the source, token by token.
PipelineText(pipeline) ==
    Flatten([i \in 1..Len(pipeline) |->
                <<"|", pipeline[i].name>> \o
                (IF pipeline[i].arg = None THEN <<>>
                 ELSE <<"(">> \o pipeline[i].arg[1] \o <<")">>)])

RECURSIVE SplitOn(_, _)
\* text.split(sep): the pieces between the occurrences of sep.
SplitOn(text, sep) ==
    IF \A i \in 1..Len(text) : text[i] # sep THEN <<text>>
    ELSE LET i == CHOOSE k \in 1..Len(text) :
                     text[k] = sep /\ \A j \in 1..(k - 1) : text[j] # sep
         IN  <<SubSeq(text, 1, i - 1)>> \o SplitOn(SubSeq(text, i + 1, Len(text)), sep)

RECURSIVE Joined(_)
\* The string the tokens make up.
Joined(tokens) == IF tokens = <<>> THEN "" ELSE Head(tokens) \o Joined(Tail(tokens))

\* f.split("(")[0].strip(): what stands before the first parenthesis.
FilterName(f) == Joined(Head(SplitOn(f, "(")))

\* The chain recorded for a pipeline (lines 174-184): the text is split at
\* every "|", empty pieces are dropped, and of each piece the part before its
\* first parenthesis is kept when it is not empty.
CleanedFilters(pipeline) ==
    LET filter_names == SelectSeq(SplitOn(PipelineText(pipeline), "|"),
                                  LAMBDA f : f # <<>>)
        names == [i \in 1..Len(filter_names) |-> FilterName(filter_names[i])]
    IN  SelectSeq(names, LAMBDA n : n # "")

RECURSIVE ExtractFrom(_, _, _, _, _)
\* The loop over re.finditer(pattern, source), from node i on.  The table
\* filter_chains is a sequence: the chain of id k is filter_chains[k + 1].
ExtractFrom(src, i, gen_index, filter_chains, modified_source) ==
    IF i > Len(src)
    THEN [filter_chains |-> filter_chains, modified_source |-> modified_source]
    ELSE IF src[i].kind = "gen" /\ PatternMatches(src[i].args)
    THEN ExtractFrom(src, i + 1, gen_index + 1,
            Append(filter_chains, CleanedFilters(src[i].pipeline)),
            Append(modified_source,
                   [src[i] EXCEPT !.pipeline = <<>>, !.source_id = Some(gen_index)]))
    ELSE ExtractFrom(src, i + 1, gen_index, filter_chains,
            Append(modified_source, src[i]))

\* Template._extract_and_inject_filters(source)
extract_and_inject_filters(src) == ExtractFrom(src, 1, 0, <<>>, <<>>)

\* self._filter_chains.get(key, [])
ChainGet(filter_chains, key) ==
    IF key + 1 \in DOMAIN filter_chains THEN filter_chains[key + 1] ELSE <<>>

(***************************************************************************)
(* template.py: Template._interpolate                                      *)
(***************************************************************************)
\* prompt.source_id or 0, a bug variant: a prompt without an id looks up a
\* key the table never has.
SourceIdOrNoKey(source_id) == IF source_id = None THEN -1 ELSE source_id[1]

\* prompt.source_id or 0
SourceIdOr0(source_id) == IF source_id = None THEN 0 ELSE source_id[1]

\* The filter chain of a prompt (lines 233-238), a bug variant: the default
\* filter is put in front of every recorded chain.
ResolveChainAlwaysDefault(recorded, default) ==
    IF default # None THEN <<default[1]>> \o recorded ELSE recorded

\* The filter chain of a prompt (lines 233-238): the default filter when
\* nothing is recorded, nothing when exactly [raw] is recorded.
ResolveChain(recorded, default) ==
    IF recorded = <<>> /\ default # None THEN <<default[1]>>
    ELSE IF recorded = <<"raw">> THEN <<>>
    ELSE recorded

RECURSIVE ApplyChainKeepsGoing(_, _)
\* The loop over filter_chain, a bug variant: after a filter has raised, the
\* filters behind it are still called, on the content it was given, and the
\* failure is reported at the end.
ApplyChainKeepsGoing(filter_chain, content) ==
    IF filter_chain = <<>>
    THEN [ok |-> TRUE, text |-> content, failed |-> "", called |-> <<>>]
    ELSE IF Head(filter_chain) \notin registry
    THEN ApplyChainKeepsGoing(Tail(filter_chain), content)
    ELSE LET r == ApplyFilter(Head(filter_chain), content)
             rest == ApplyChainKeepsGoing(Tail(filter_chain),
                                          IF r.ok THEN r.text ELSE content)
         IN  IF r.ok THEN [rest EXCEPT !.called = <<Head(filter_chain)>> \o @]
             ELSE [ok |-> FALSE, text |-> <<>>, failed |-> Head(filter_chain),
                   called |-> <<Head(filter_chain)>> \o rest.called]

RECURSIVE ApplyChainFromTheRaw(_, _)
\* The loop over filter_chain, a bug variant: every filter is given the
\* generated text as the backend returned it, not what the filter before it
\* made of it.
ApplyChainFromTheRaw(filter_chain, content) ==
    IF filter_chain = <<>>
    THEN [ok |-> TRUE, text |-> content, failed |-> "", called |-> <<>>]
    ELSE IF Head(filter_chain) \notin registry
    THEN ApplyChainFromTheRaw(Tail(filter_chain), content)
    ELSE LET r == ApplyFilter(Head(filter_chain), content)
             rest == ApplyChainFromTheRaw(Tail(filter_chain), content)
         IN  IF ~r.ok
             THEN [ok |-> FALSE, text |-> <<>>, failed |-> Head(filter_chain),
                   called |-> <<Head(filter_chain)>>]
             ELSE [rest EXCEPT !.called = <<Head(filter_chain)>> \o @,
                               !.text = IF rest.called = <<>> THEN r.text ELSE @]

RECURSIVE ApplyChain(_, _)
\* The loop over filter_chain (lines 240-249): names the registry does not
\* know are skipped; a filter that raises ends the loop.  called lists the
\* filters that were called, failed names the one that raised.
ApplyChain(filter_chain, content) ==
    IF filter_chain = <<>>
    THEN [ok |-> TRUE, text |-> content, failed |-> "", called |-> <<>>]
    ELSE IF Head(filter_chain) \notin registry
    THEN ApplyChain(Tail(filter_chain), content)
    ELSE LET r == ApplyFilter(Head(filter_chain), content)
         IN  IF r.ok
             THEN LET rest == ApplyChain(Tail(filter_chain), r.text)
                  IN  [rest EXCEPT !.called = <<Head(filter_chain)>> \o @]
             ELSE [ok |-> FALSE, text |-> <<>>, failed |-> Head(filter_chain),
                   called |-> <<Head(filter_chain)>>]

\* str.replace(placeholder, content) on a text.
Replace(text, placeholder, content) ==
    Flatten([i \in 1..Len(text) |->
                IF text[i] = placeholder THEN content ELSE <<text[i]>>])

RECURSIVE InterpolateFrom(_, _, _, _, _, _)
\* The loop of _interpolate from prompt k on: [error, text, chains], chains
\* telling for each prompt done the key looked up in the table, the chain
\* found there, the value of filter_chain after lines 233-238, the filters
\* called and the one that raised.
InterpolateFrom(ctx, k, result, chains, fchains, default) ==
    IF k > Len(ctx.prompts)
    THEN [error |-> NoError, text |-> result, chains |-> chains]
    ELSE LET prompt == ctx.prompts[k]
         IN  IF ~has_generated(ctx.generated, prompt.placeholder)
             THEN [error |-> Exc("KeyError", <<prompt.placeholder>>),
                   text |-> result, chains |-> chains]
             ELSE LET key == SourceIdOr0(prompt.source_id)
                      recorded == ChainGet(fchains, key)
                      filter_chain == ResolveChain(recorded, default)
                      r == ApplyChain(filter_chain,
                                      get_generated(ctx.generated, prompt.placeholder))
                      used == Append(chains, [key |-> key, recorded |-> recorded,
                                              chain |-> filter_chain,
                                              called |-> r.called,
                                              failed |-> r.failed])
                  IN  IF ~r.ok
                      THEN [error |-> [kind |-> "TemplateRenderError",
                                       msg |-> <<"Filter '", r.failed, "' failed: ">>,
                                       cause |-> "ValueError"],
                            text |-> result,
                            chains |-> used]
                      ELSE InterpolateFrom(ctx, k + 1,
                              Replace(result, prompt.placeholder, r.text),
                              used, fchains, default)

\* Template._interpolate(first_pass, render_ctx)
interpolate(first_pass_text, ctx, fchains, default) ==
    InterpolateFrom(ctx, 1, first_pass_text, <<>>, fchains, default)

RECURSIVE ZipGenerated(_, _, _, _)
\* for prompt, response in zip(render_ctx.prompts, responses):
\*     render_ctx.set_generated(prompt.placeholder, response.text)
ZipGenerated(generated, prompts, resps, k) ==
    IF k > Len(prompts) \/ k > Len(resps) THEN generated
    ELSE ZipGenerated(set_generated(generated, prompts[k].placeholder, resps[k]),
                      prompts, resps, k + 1)

(***************************************************************************)
(* parser.py: GenjiExtension._gen_function                                 *)
(***************************************************************************)
\* except RuntimeError as e: raise TemplateParseError(...) from e, what gen
\* raises when get_current_context finds no context bound.
NoContextError ==
    [kind |-> "TemplateParseError",
     msg |-> <<"gen() called outside of render context">>,
     cause |-> "RuntimeError"]

\* The value of the parameter __source_id inside _gen_function when the
\* rewritten source calls gen(..., __source_id=k).  The parameter is written
\* in the body of class GenjiExtension, so its name is
\* _GenjiExtension__source_id: the keyword __source_id of the call is taken
\* by **kwargs and the parameter keeps its default, None.
GenSourceId(injected) == None

\* The references a prompt may hold, one token each: {name}, the attribute
\* reference {name.attr}, the positional reference {0} and the unclosed
\* reference {name .
References == {"{name}", "{name.attr}", "{0}", "{name"}

\* What str.format raises on one token with the variables as its keyword
\* arguments ("" when it raises nothing): the values bound are strings, which
\* have no attribute attr, and there is no positional argument.
FormatErrorTok(t, variables) ==
    CASE t = "{name" -> "ValueError"
      [] t = "{0}" -> "IndexError"
      [] t = "{name}" /\ variables.name = None -> "KeyError"
      [] t = "{name.attr}" /\ variables.name = None -> "KeyError"
      [] t = "{name.attr}" /\ variables.name # None -> "AttributeError"
      [] OTHER -> ""

\* What prompt.format(**ctx.variables) raises: the error of the first
\* reference that has one.
FormatError(prompt, variables) ==
    IF \E i \in 1..Len(prompt) : FormatErrorTok(prompt[i], variables) # ""
    THEN FormatErrorTok(prompt[CHOOSE i \in 1..Len(prompt) :
                                  /\ FormatErrorTok(prompt[i], variables) # ""
                                  /\ \A j \in 1..(i - 1) :
                                        FormatErrorTok(prompt[j], variables) = ""],
                        variables)
    ELSE ""

\* except (KeyError, IndexError, ValueError)
FormatCaught == {"KeyError", "IndexError", "ValueError"}

\* prompt.format(**ctx.variables) with its fallback: a {name} reference is
\* replaced by the variable; a failure that is caught leaves the prompt as
\* written.
FormatPrompt(prompt, variables) ==
    IF FormatError(prompt, variables) # ""
    THEN prompt
    ELSE [i \in 1..Len(prompt) |->
            IF prompt[i] = "{name}" THEN variables.name[1] ELSE prompt[i]]

(***************************************************************************)
(* The renders.  A path is one execution path with a context of its own: a *)
(* thread, or an asyncio task.                                             *)
(***************************************************************************)
VARIABLES
    constructed,     \* a Template has been built
    source,          \* Template._source
    default_filter,  \* Template._default_filter
    filter_chains,   \* Template._filter_chains
    template,        \* Template._template: the compiled rewritten source
    backend,         \* Template._backend: what the backend object offers
    active,          \* _render_context: the value bound in each context
    pc,              \* the phase of the render running on each path
    mode,            \* "render" or "arender"
    ctxs,            \* render_ctx of the render of each path
    pos,             \* evaluation: the node being evaluated
    iter,            \* evaluation: iterations done of the loop at pos
    first_pass,      \* the text evaluated so far
    issued,          \* history: what gen returned to this evaluation, and where
    calls,           \* history: the backend operations this render invoked
    responses,       \* the texts of the responses the batch call returned
    resolved,        \* history: the filter chain _interpolate used per prompt
    result,          \* what the call returned
    error,           \* what the call raised
    failed_before,   \* history: an earlier render on this path raised
    as_json,         \* the call is render_json / arender_json
    parsed,          \* what json.loads made of the rendered text
    init_error,      \* what the last Template(...) raised
    filter_call,     \* a call of one filter function: its arguments, its outcome
    file_call,       \* a call of Template.from_file / afrom_file
    llm,             \* an LLMBackend and the operation running on it
    mock             \* a MockBackend and the operation called on it

TemplateVars ==
    <<constructed, source, default_filter, filter_chains, template, backend, init_error>>
JsonVars == <<as_json, parsed>>
RenderVars == <<active, pc, mode, ctxs, pos, iter, first_pass, issued, calls,
                responses, resolved, result, error, failed_before, JsonVars>>
\* What lives outside a Template and its renders.
LibVars == <<filter_call, registry, file_call, llm, mock>>
vars == <<TemplateVars, RenderVars, LibVars>>

\* The context variable of a bug variant: one slot shared by the process.
CtxSlotGlobal(p) == 1

\* _render_context is a ContextVar: every path reads and writes the slot of
\* its own context.
CtxSlot(p) == p

NoResult == [returned |-> FALSE, text |-> <<>>]
Returned(text) == [returned |-> TRUE, text |-> text]

\* The binding after a render leaves, a bug variant: set_current_context(None)
\* is the last statement of the try block and is skipped by an exception.
ExitBindingNoFinally(p, raised) ==
    IF raised THEN active ELSE [active EXCEPT ![CtxSlot(p)] = None]

\* finally: set_current_context(None), on every way out of render/arender.
ExitBinding(p, raised) == [active EXCEPT ![CtxSlot(p)] = None]

\* What the caller gets when the call raises, a bug variant: the text
\* substituted so far is handed back.
ResultOnRaiseKeepsPartial(partial) == Returned(partial)

\* What the caller gets when the call raises: no value.
ResultOnRaise(partial) == NoResult

\* except jinja2.TemplateError as e: raise TemplateRenderError(...) from e
CollectingHandler(e) ==
    IF IsTemplateError(e.kind)
    THEN RenderErrorFrom("Template rendering failed: ", e) ELSE e

\* The handler of the Generating phase, a bug variant: except BaseException.
GeneratingHandlerCatchesAll(e) ==
    RenderErrorFrom("LLM backend generation failed: ", e)

\* The handler of the Generating phase, a bug variant: except BackendError.
GeneratingHandlerOnlyBackendError(e) ==
    IF e.kind = "BackendError"
    THEN RenderErrorFrom("LLM backend generation failed: ", e) ELSE e

\* except Exception as e:
\*     raise TemplateRenderError(f"LLM backend generation failed: {e}") from e
GeneratingHandler(e) ==
    IF IsException(e.kind)
    THEN RenderErrorFrom("LLM backend generation failed: ", e) ELSE e

\* if not render_ctx.prompts, a bug variant: the short cut is never taken.
NoPromptsNever(ctx) == FALSE

\* if not render_ctx.prompts, a bug variant: the short cut is always taken.
NoPromptsAlways(ctx) == TRUE

\* if not render_ctx.prompts: return first_pass
NoPrompts(ctx) == ctx.prompts = <<>>

\* The batch operation a render invokes, a bug variant: arender calls
\* generate_batch itself when the backend has no agenerate_batch.
BatchOpSyncOnLoop(m, be) ==
    IF m = "arender" /\ be.agenerate_batch
    THEN [op |-> "agenerate_batch", on |-> "event_loop"]
    ELSE [op |-> "generate_batch", on |-> "caller"]

\* The batch operation a render invokes, and where it runs: render calls
\* generate_batch itself; arender awaits agenerate_batch when the backend has
\* the attribute and else runs generate_batch through asyncio.to_thread.
BatchOp(m, be) ==
    IF m = "render" THEN [op |-> "generate_batch", on |-> "caller"]
    ELSE IF be.agenerate_batch
    THEN [op |-> "agenerate_batch", on |-> "event_loop"]
    ELSE [op |-> "generate_batch", on |-> "worker_thread"]

\* requests = [p.to_request() for p in render_ctx.prompts]
Requests(ctx) == [i \in 1..Len(ctx.prompts) |-> to_request(ctx.prompts[i])]

(***************************************************************************)
(* What the callers and the backend may do.                                *)
(***************************************************************************)
\* The i-th response of a batch, distinct for every i.
RespWord(i) == "r" \o ToString(i)
\* n responses, the i-th for the i-th request.
Distinct(n) == [i \in 1..n |-> <<RespWord(i)>>]
\* n responses; the i-th quotes the placeholder text of the next prompt.
Inject(n) == [i \in 1..n |-> <<"a", Placeholder(i)>>]
\* The response lists a backend may return to n requests: of the right
\* length, one too short, one too long.
ResponseLists(n) ==
    {Distinct(n), Inject(n), Distinct(n + 1)}
        \cup (IF n > 0 THEN {Distinct(n - 1)} ELSE {})

\* The exceptions a backend's batch operation may raise.
BackendFailures ==
    {Exc("RuntimeError", <<"Backend failed">>),
     Exc("BackendError", <<"Batch generation failed for request 0">>)}

\* The keyword arguments of a render call.
VarChoices ==
    {[name |-> Some("v"), items |-> k] : k \in 0..MaxItems}
        \cup {[name |-> None, items |-> 1]}

Modes == {"render", "arender"}

\* The gen() call sites of the sources considered.
SiteNodes ==
    {Site(0, <<"hi", "{name}">>, NoParams, <<>>, FALSE),
     Site(0, <<"praw">>, NoParams, <<Pipe("raw")>>, FALSE),
     Site(0, <<"pup">>, NoParams, <<Pipe("upper")>>, FALSE),
     Site(0, <<"pru">>, NoParams, <<Pipe("raw"), Pipe("upper")>>, FALSE),
     Site(0, <<"item">>, SomeParams, <<Pipe("json")>>, TRUE)}
        \cup {Site(d, <<"deep">>, NoParams, <<Pipe("lower")>>, FALSE) : d \in 1..MaxDepth}

\* The sources considered: up to MaxNodes nodes.
Sources ==
    UNION {[1..k -> SiteNodes \cup {Lit("a"), VarNode, BadNode}] : k \in 1..MaxNodes}

DefaultFilters == {None, Some("json")}

\* The characters a generated text is made of where escaping matters: a
\* quote, a backslash, a newline, the letters n and a, a non-ASCII letter.
JsonAlphabet == {Quote, Backslash, "\n", "n", "a", "é"}

\* The generated texts of at most MaxText characters.
JsonTexts == UNION {[1..k -> JsonAlphabet] : k \in 0..MaxText}
Backends == {[agenerate_batch |-> b] : b \in BOOLEAN}

(***************************************************************************)
(* Initial state: no Template yet, every path idle.                        *)
(***************************************************************************)
InitRender(P) ==
    /\ constructed = FALSE
    /\ source = <<>>
    /\ default_filter = None
    /\ filter_chains = <<>>
    /\ template = <<>>
    /\ backend = [agenerate_batch |-> FALSE]
    /\ active = [s \in {CtxSlot(p) : p \in P} |-> None]
    /\ pc = [p \in P |-> "idle"]
    /\ mode = [p \in P |-> "render"]
    /\ ctxs = [p \in P |-> RenderContext([name |-> None, items |-> 0])]
    /\ pos = [p \in P |-> 1]
    /\ iter = [p \in P |-> 0]
    /\ first_pass = [p \in P |-> <<>>]
    /\ issued = [p \in P |-> <<>>]
    /\ calls = [p \in P |-> <<>>]
    /\ responses = [p \in P |-> <<>>]
    /\ resolved = [p \in P |-> <<>>]
    /\ result = [p \in P |-> NoResult]
    /\ error = [p \in P |-> NoError]
    /\ failed_before = [p \in P |-> FALSE]
    /\ as_json = [p \in P |-> FALSE]
    /\ parsed = [p \in P |-> None]
    /\ init_error = NoError

\* No filter has been called.
NoFilterCall ==
    [name |-> "", value |-> <<>>, length |-> 0, suffix |-> <<>>, out |-> None]

\* Nothing outside the Template is in use.
\* from_file has not been called.
NoFileCall ==
    [op |-> "", name |-> <<>>, file |-> "", explicit |-> None, raised |-> ""]

\* No LLMBackend has been built.
NoLlm ==
    [temperature |-> None, max_tokens |-> None, op |-> "", pc |-> "idle",
     requests |-> <<>>, futures |-> <<>>, completed |-> <<>>, collected |-> <<>>,
     provider_calls |-> <<>>, responses |-> <<>>, result |-> None, error |-> NoError]

\* MockBackend(response_fn, default_response): nothing called yet.
MockBackend(response_fn, default_response) ==
    [response_fn |-> response_fn, default_response |-> default_response,
     call_count |-> 0, last_request |-> None, all_requests |-> <<>>,
     op |-> "", requests |-> <<>>, result |-> None, error |-> NoError]

\* MockBackend()
NewMock == MockBackend(None, None)

\* No backend object is in use on its own.
InitBackends ==
    /\ llm = NoLlm
    /\ mock = NewMock

InitLib ==
    /\ filter_call = NoFilterCall
    /\ registry = FILTERS
    /\ file_call = NoFileCall
    /\ InitBackends

InitOn(P) == InitRender(P) /\ InitLib

(***************************************************************************)
(* template.py: Template.__init__                                          *)
(***************************************************************************)
\* A piece of source Jinja cannot compile: a {{ that is never closed.
Malformed == Node("malformed", "{{ name", <<>>, <<>>, NoParams, <<>>, FALSE)

\* self._env.from_string(modified_source) compiles the source.
SyntaxOK(src) == \A i \in 1..Len(src) : src[i].kind # "malformed"

\* The body of __init__ on a source that compiles.
Build(Fam, Defaults, Bes) ==
    /\ \E src \in Fam, df \in Defaults, be \in Bes :
         LET ex == extract_and_inject_filters(src)
         IN  /\ SyntaxOK(ex.modified_source)
             /\ source' = src
             /\ default_filter' = df
             /\ backend' = be
             /\ filter_chains' = ex.filter_chains
             /\ template' = ex.modified_source
    /\ constructed' = TRUE
    /\ init_error' = NoError

\* Template(source, backend, default_filter)
Construct(Fam, Defaults, Bes) ==
    /\ ~constructed
    /\ Build(Fam, Defaults, Bes)
    /\ UNCHANGED <<RenderVars, LibVars>>

(***************************************************************************)
(* template.py: Template.render and Template.arender, step by step         *)
(***************************************************************************)
\* The call leaves by an exception: the finally clause runs, nothing is
\* returned.
Raise(p, e, partial) ==
    /\ pc' = [pc EXCEPT ![p] = "errored"]
    /\ error' = [error EXCEPT ![p] = e]
    /\ result' = [result EXCEPT ![p] = ResultOnRaise(partial)]
    /\ active' = ExitBinding(p, TRUE)

\* The call returns text, a bug variant: arender returns the first-pass
\* text, placeholders and all.
ReturnUninterpolatedWhenAsync(p, text) ==
    /\ pc' = [pc EXCEPT ![p] = "done"]
    /\ result' = [result EXCEPT ![p] =
                     Returned(IF mode[p] = "arender" THEN first_pass[p] ELSE text)]
    /\ active' = ExitBinding(p, FALSE)
    /\ UNCHANGED error

\* The call returns text: the finally clause runs.
Return(p, text) ==
    /\ pc' = [pc EXCEPT ![p] = "done"]
    /\ result' = [result EXCEPT ![p] = Returned(text)]
    /\ active' = ExitBinding(p, FALSE)
    /\ UNCHANGED error

\* render_ctx = RenderContext(variables=context); set_current_context(render_ctx)
\* json tells whether the call comes through render_json / arender_json.
StartCall(p, Vars, json) ==
    /\ pc[p] = "idle"
    /\ \E m \in Modes, v \in Vars :
         /\ mode' = [mode EXCEPT ![p] = m]
         /\ ctxs' = [ctxs EXCEPT ![p] = RenderContext(v)]
    /\ active' = [active EXCEPT ![CtxSlot(p)] = Some(p)]
    /\ pc' = [pc EXCEPT ![p] = "collecting"]
    /\ as_json' = [as_json EXCEPT ![p] = json]
    /\ UNCHANGED <<TemplateVars, LibVars, parsed, pos, iter, first_pass, issued, calls,
                   responses, resolved, result, error, failed_before>>

\* template.render(**context) or await template.arender(**context)
StartRender(p, Vars) ==
    /\ constructed
    /\ StartCall(p, Vars, FALSE)

\* template.render_json(**context) or await template.arender_json(**context):
\* result = self.render(**context)
StartRenderJson(p, Vars) ==
    /\ constructed
    /\ StartCall(p, Vars, TRUE)

\* The evaluation after a node, a bug variant: it stays where it is.
AdvanceStaysPut(p, times) == UNCHANGED <<pos, iter>>

\* The evaluation moves on from the node at pos, or stays for another
\* iteration of its loop.
Advance(p, times) ==
    IF iter[p] + 1 >= times
    THEN pos' = [pos EXCEPT ![p] = @ + 1] /\ iter' = [iter EXCEPT ![p] = 0]
    ELSE iter' = [iter EXCEPT ![p] = @ + 1] /\ UNCHANGED pos

\* self._template.render(**context), one node (one loop iteration) at a time.
\* A gen() call is _gen_function: it takes the context bound in the caller's
\* context variable, registers the prompt there and returns the placeholder.
\* Filters left in a call site's pipeline are the identity at this stage
\* (Template._create_environment).
EvalStep(p) ==
    /\ pc[p] = "collecting"
    /\ pos[p] <= Len(template)
    /\ template[pos[p]].kind # "render"
    /\ LET node == template[pos[p]]
           variables == ctxs[p].variables
           times == IF node.loop THEN variables.items ELSE 1
           cur == active[CtxSlot(p)]
       IN  IF node.kind = "lit"
           THEN /\ first_pass' = [first_pass EXCEPT ![p] = Append(@, node.text)]
                /\ Advance(p, 1)
                /\ UNCHANGED <<active, pc, ctxs, issued, result, error>>
           ELSE IF node.kind = "var" /\ variables.name # None
           THEN /\ first_pass' = [first_pass EXCEPT ![p] = Append(@, variables.name[1])]
                /\ Advance(p, 1)
                /\ UNCHANGED <<active, pc, ctxs, issued, result, error>>
           ELSE IF node.kind = "var"
           THEN /\ Raise(p, CollectingHandler(
                            Exc("UndefinedError", <<"'name' is undefined">>)),
                         first_pass[p])
                /\ UNCHANGED <<ctxs, pos, iter, first_pass, issued>>
           ELSE IF node.kind = "bad"
           THEN /\ Raise(p, CollectingHandler(
                            Exc("TypeError", <<"unsupported operand type(s)">>)),
                         first_pass[p])
                /\ UNCHANGED <<ctxs, pos, iter, first_pass, issued>>
           ELSE IF times = 0
           THEN /\ Advance(p, 1)
                /\ UNCHANGED <<active, pc, ctxs, first_pass, issued, result, error>>
           ELSE IF cur = None
           THEN /\ Raise(p, CollectingHandler(NoContextError), first_pass[p])
                /\ UNCHANGED <<ctxs, pos, iter, first_pass, issued>>
           ELSE IF FormatError(node.prompt, ctxs[cur[1]].variables)
                       \notin FormatCaught \cup {""}
           THEN /\ Raise(p, CollectingHandler(
                            Exc(FormatError(node.prompt, ctxs[cur[1]].variables),
                                <<"'str' object has no attribute 'attr'">>)),
                         first_pass[p])
                /\ UNCHANGED <<ctxs, pos, iter, first_pass, issued>>
           ELSE LET ctx == ctxs[cur[1]]
                    written == IF node.loop
                               THEN node.prompt \o <<ToString(iter[p] + 1)>>
                               ELSE node.prompt
                    placeholder == Placeholder(ctx.counter)
                IN  /\ ctxs' = [ctxs EXCEPT ![cur[1]] =
                                  collect_prompt(ctx, FormatPrompt(written, ctx.variables),
                                                 node.max_tokens, node.temperature,
                                                 node.stop, GenSourceId(node.source_id))]
                    /\ first_pass' = [first_pass EXCEPT ![p] = Append(@, placeholder)]
                    /\ issued' = [issued EXCEPT ![p] =
                                    Append(@, [placeholder |-> placeholder,
                                               node |-> pos[p]])]
                    /\ Advance(p, times)
                    /\ UNCHANGED <<active, pc, result, error>>
    /\ UNCHANGED <<TemplateVars, LibVars, JsonVars, mode, calls, responses, resolved, failed_before>>

\* An expression whose evaluation renders another Template on the same
\* path, as {{ inner() }} does with inner=other.render among the variables.
RenderNode == Node("render", "", <<>>, <<>>, NoParams, <<>>, FALSE)

\* What the inner render returns.
InnerTexts == {<<"b">>, <<>>}

\* The evaluation reaches {{ inner() }}: the inner Template.render runs from
\* its first statement to its finally clause on this path.  It binds a
\* context of its own with set_current_context, returns its text, and its
\* finally clause calls set_current_context(None); nothing puts back the
\* context that was bound before.
NestedRender(p) ==
    /\ pc[p] = "collecting"
    /\ pos[p] <= Len(template)
    /\ template[pos[p]].kind = "render"
    /\ \E inner \in InnerTexts :
         first_pass' = [first_pass EXCEPT ![p] = @ \o inner]
    /\ active' = ExitBinding(p, FALSE)
    /\ Advance(p, 1)
    /\ UNCHANGED <<TemplateVars, LibVars, JsonVars, pc, mode, ctxs, issued, calls,
                   responses, resolved, result, error, failed_before>>

\* The evaluation is over: return first_pass when nothing was collected, else
\* build the requests and invoke the backend's batch operation.
FinishCollecting(p) ==
    /\ pc[p] = "collecting"
    /\ pos[p] > Len(template)
    /\ IF NoPrompts(ctxs[p])
       THEN /\ Return(p, first_pass[p])
            /\ UNCHANGED calls
       ELSE /\ calls' = [calls EXCEPT ![p] =
                           Append(@, [op |-> BatchOp(mode[p], backend).op,
                                      on |-> BatchOp(mode[p], backend).on,
                                      requests |-> Requests(ctxs[p]),
                                      outcome |-> "pending",
                                      exc |-> NoError])]
            /\ pc' = [pc EXCEPT ![p] = "generating"]
            /\ UNCHANGED <<active, result, error>>
    /\ UNCHANGED <<TemplateVars, LibVars, JsonVars, mode, ctxs, pos, iter, first_pass, issued,
                   responses, resolved, failed_before>>

\* The last call of the log with its outcome filled in.
Settle(log, outcome, e) ==
    [log EXCEPT ![Len(log)] = [@ EXCEPT !.outcome = outcome, !.exc = e]]

\* The batch operation returns the responses rs: every (prompt, response)
\* pair is stored.
BackendAnswers(p, rs) ==
    /\ pc[p] = "generating"
    /\ responses' = [responses EXCEPT ![p] = rs]
    /\ ctxs' = [ctxs EXCEPT ![p].generated =
                   ZipGenerated(@, ctxs[p].prompts, rs, 1)]
    /\ calls' = [calls EXCEPT ![p] = Settle(@, "returned", NoError)]
    /\ pc' = [pc EXCEPT ![p] = "interpolating"]
    /\ UNCHANGED <<TemplateVars, LibVars, JsonVars, active, mode, pos, iter, first_pass,
                   issued, resolved, result, error, failed_before>>

\* The batch operation returns one of the response lists.
BackendReturn(p) ==
    /\ pc[p] = "generating"
    /\ \E rs \in ResponseLists(Len(calls[p][Len(calls[p])].requests)) :
         BackendAnswers(p, rs)

\* The batch operation answers its one request with some text.
BackendReturnText(p) ==
    /\ pc[p] = "generating"
    /\ Len(calls[p][Len(calls[p])].requests) = 1
    /\ \E t \in JsonTexts : BackendAnswers(p, <<t>>)

\* The batch operation raises.
BackendRaise(p) ==
    /\ pc[p] = "generating"
    /\ \E e \in BackendFailures :
         /\ calls' = [calls EXCEPT ![p] = Settle(@, "raised", e)]
         /\ Raise(p, GeneratingHandler(e), first_pass[p])
    /\ UNCHANGED <<TemplateVars, LibVars, JsonVars, mode, ctxs, pos, iter, first_pass, issued,
                   responses, resolved, failed_before>>

\* The task running arender is cancelled while it awaits the batch
\* operation: CancelledError is raised at the await.
Cancel(p) ==
    /\ pc[p] = "generating"
    /\ mode[p] = "arender"
    /\ calls' = [calls EXCEPT ![p] = Settle(@, "cancelled", NoError)]
    /\ Raise(p, GeneratingHandler(Exc("CancelledError", <<>>)), first_pass[p])
    /\ UNCHANGED <<TemplateVars, LibVars, JsonVars, mode, ctxs, pos, iter, first_pass, issued,
                   responses, resolved, failed_before>>

\* return self._interpolate(first_pass, render_ctx)
Interpolate(p) ==
    /\ pc[p] = "interpolating"
    /\ LET r == interpolate(first_pass[p], ctxs[p], filter_chains, default_filter)
       IN  /\ resolved' = [resolved EXCEPT ![p] = r.chains]
           /\ IF r.error = NoError
              THEN Return(p, r.text)
              ELSE Raise(p, r.error, r.text)
    /\ UNCHANGED <<TemplateVars, LibVars, JsonVars, mode, ctxs, pos, iter, first_pass, issued, calls,
                   responses, failed_before>>

\* The caller has the value or the exception; the path is free for the next
\* render, and the locals of the finished call are gone.
Reset(p) ==
    /\ pc[p] \in {"done", "errored"}
    /\ ~(as_json[p] /\ pc[p] = "done" /\ parsed[p] = None)
    /\ failed_before' = [failed_before EXCEPT ![p] = @ \/ pc[p] = "errored"]
    /\ pc' = [pc EXCEPT ![p] = "idle"]
    /\ mode' = [mode EXCEPT ![p] = "render"]
    /\ ctxs' = [ctxs EXCEPT ![p] = RenderContext([name |-> None, items |-> 0])]
    /\ pos' = [pos EXCEPT ![p] = 1]
    /\ iter' = [iter EXCEPT ![p] = 0]
    /\ first_pass' = [first_pass EXCEPT ![p] = <<>>]
    /\ issued' = [issued EXCEPT ![p] = <<>>]
    /\ calls' = [calls EXCEPT ![p] = <<>>]
    /\ responses' = [responses EXCEPT ![p] = <<>>]
    /\ resolved' = [resolved EXCEPT ![p] = <<>>]
    /\ result' = [result EXCEPT ![p] = NoResult]
    /\ error' = [error EXCEPT ![p] = NoError]
    /\ as_json' = [as_json EXCEPT ![p] = FALSE]
    /\ parsed' = [parsed EXCEPT ![p] = None]
    /\ UNCHANGED <<TemplateVars, LibVars, active>>

(***************************************************************************)
(* template.py: render_json / arender_json; gen called directly;           *)
(* Template(...) on a source that does not compile                         *)
(***************************************************************************)
\* The error of render_json on invalid JSON, a bug variant: the message
\* leaves the rendered text out.
JsonErrorOmitsOutput(text) ==
    [kind |-> "TemplateRenderError",
     msg |-> <<"Template output is not valid JSON: ">>,
     cause |-> "JSONDecodeError"]

\* except json.JSONDecodeError as e: raise TemplateRenderError(
\*     f"Template output is not valid JSON: {e}\nOutput was:\n{result}") from e
JsonErrorFrom(text) ==
    [kind |-> "TemplateRenderError",
     msg |-> <<"Template output is not valid JSON: ", "\nOutput was:\n">> \o text,
     cause |-> "JSONDecodeError"]

\* return json.loads(result), after the render of a render_json or
\* arender_json call has returned its text.
JsonLoads(p) ==
    /\ as_json[p]
    /\ pc[p] = "done"
    /\ parsed[p] = None
    /\ LET r == json_loads(result[p].text)
       IN  IF r.ok
           THEN /\ parsed' = [parsed EXCEPT ![p] = Some(r.value)]
                /\ UNCHANGED <<pc, error, result>>
           ELSE /\ pc' = [pc EXCEPT ![p] = "errored"]
                /\ error' = [error EXCEPT ![p] = JsonErrorFrom(result[p].text)]
                /\ result' = [result EXCEPT ![p] = ResultOnRaise(result[p].text)]
                /\ UNCHANGED parsed
    /\ UNCHANGED <<TemplateVars, LibVars, as_json, active, mode, ctxs, pos, iter,
                   first_pass, issued, calls, responses, resolved, failed_before>>

\* The gen function is called with no render running on the path, as in
\* create_environment().from_string(source).render(): get_current_context
\* raises and nothing is registered.
GenOutsideRender(p) ==
    /\ pc[p] = "idle"
    /\ active[CtxSlot(p)] = None
    /\ mode' = [mode EXCEPT ![p] = "gen"]
    /\ pc' = [pc EXCEPT ![p] = "errored"]
    /\ error' = [error EXCEPT ![p] = NoContextError]
    /\ UNCHANGED <<TemplateVars, LibVars, JsonVars, active, ctxs, pos, iter, first_pass,
                   issued, calls, responses, resolved, result, failed_before>>

\* What self._env.from_string raises on a source that does not compile;
\* __init__ has no handler around it.
FromStringError ==
    [kind |-> "TemplateSyntaxError",
     msg |-> <<"unexpected end of template">>,
     cause |-> ""]

\* Template(source, backend) on a source that does not compile: __init__
\* raises and no Template object comes into being.
ConstructFails(Fam) ==
    /\ ~constructed
    /\ \E src \in Fam :
         ~SyntaxOK(extract_and_inject_filters(src).modified_source)
    /\ init_error' = FromStringError
    /\ UNCHANGED <<constructed, source, default_filter, filter_chains, template,
                   backend, RenderVars, LibVars>>

(***************************************************************************)
(* Specifications                                                          *)
(***************************************************************************)
\* One path, every source.
Init == InitOn({1})

Next ==
    \/ Construct(Sources, DefaultFilters, Backends)
    \/ \E p \in {1} :
         \/ StartRender(p, VarChoices)
         \/ EvalStep(p)
         \/ FinishCollecting(p)
         \/ BackendReturn(p)
         \/ BackendRaise(p)
         \/ Cancel(p)
         \/ Interpolate(p)
         \/ Reset(p)

Spec == Init /\ [][Next]_vars

\* Two paths rendering one Template at the same time: two threads, or two
\* asyncio tasks.
ConcPaths == {1, 2}

ConcSources ==
    {<<Site(0, <<"hi", "{name}">>, NoParams, <<>>, FALSE),
       Site(0, <<"pup">>, NoParams, <<Pipe("upper")>>, FALSE)>>,
     <<VarNode, Site(0, <<"praw">>, NoParams, <<Pipe("raw")>>, FALSE)>>}

ConcVars == {[name |-> Some("v"), items |-> 1], [name |-> None, items |-> 1]}

InitConc == InitOn(ConcPaths)

NextConc ==
    \/ Construct(ConcSources, {None}, Backends)
    \/ \E p \in ConcPaths :
         \/ StartRender(p, ConcVars)
         \/ EvalStep(p)
         \/ FinishCollecting(p)
         \/ BackendReturn(p)
         \/ BackendRaise(p)
         \/ Cancel(p)
         \/ Interpolate(p)
         \/ Reset(p)

SpecConc == InitConc /\ [][NextConc]_vars

\* One path, the whole interface: render_json and arender_json next to
\* render and arender, gen called outside a render, sources that do not
\* compile, prompts with every kind of reference, generated texts with the
\* characters JSON escapes.
JsonSite == Site(0, <<"p">>, NoParams, <<Pipe("json")>>, FALSE)

ApiSources ==
    {<<Lit(ObjectOpen), JsonSite, Lit(ObjectClose)>>,
     <<JsonSite>>,
     <<Lit("a"), Site(0, <<"p">>, NoParams, <<>>, FALSE)>>,
     <<Malformed>>,
     <<JsonSite, Malformed>>}
        \cup {<<Site(0, <<"hi", ref>>, NoParams, <<>>, FALSE)>> : ref \in References}

ApiVars == {[name |-> Some("v"), items |-> 1], [name |-> None, items |-> 1]}

InitApi == InitOn({1})

NextApi ==
    \/ Construct(ApiSources, {None}, Backends)
    \/ ConstructFails(ApiSources)
    \/ \E p \in {1} :
         \/ StartRender(p, ApiVars)
         \/ StartRenderJson(p, ApiVars)
         \/ EvalStep(p)
         \/ FinishCollecting(p)
         \/ BackendReturn(p)
         \/ BackendReturnText(p)
         \/ BackendRaise(p)
         \/ Cancel(p)
         \/ Interpolate(p)
         \/ JsonLoads(p)
         \/ GenOutsideRender(p)
         \/ Reset(p)

SpecApi == InitApi /\ [][NextApi]_vars

(***************************************************************************)
(* template.py: Template.from_file, afrom_file, _detect_filter             *)
(***************************************************************************)
\* str.lower() of one piece of a file name.
LowerPiece(t) ==
    CASE t = ".JSON" -> ".json"
      [] t = ".GENJI" -> ".genji"
      [] OTHER -> t

\* "<a><b>" in filename, for a file name given as its pieces.
Contains(filename, a, b) ==
    \E i \in 1..(Len(filename) - 1) : filename[i] = a /\ filename[i + 1] = b

\* _detect_filter, a bug variant: the file name is looked at before the
\* explicit argument.
detect_filter_name_first(name, explicit) ==
    LET filename == [i \in 1..Len(name) |-> LowerPiece(name[i])]
    IN  IF Contains(filename, ".json", ".genji") THEN Some("json")
        ELSE IF Contains(filename, ".html", ".genji") THEN Some("html")
        ELSE IF Contains(filename, ".xml", ".genji") THEN Some("xml")
        ELSE IF Contains(filename, ".yaml", ".genji")
                \/ Contains(filename, ".yml", ".genji") THEN Some("yaml")
        ELSE explicit

\* Template._detect_filter(path, default_filter); explicit is its second
\* argument.
detect_filter(name, explicit) ==
    IF explicit # None THEN explicit
    ELSE LET filename == [i \in 1..Len(name) |-> LowerPiece(name[i])]
         IN  IF Contains(filename, ".json", ".genji") THEN Some("json")
             ELSE IF Contains(filename, ".html", ".genji") THEN Some("html")
             ELSE IF Contains(filename, ".xml", ".genji") THEN Some("xml")
             ELSE IF Contains(filename, ".yaml", ".genji")
                     \/ Contains(filename, ".yml", ".genji") THEN Some("yaml")
             ELSE None

\* The pieces file names are made of: a stem and extensions, two of them
\* also in capitals.
NamePieces ==
    {"t", ".json", ".JSON", ".html", ".xml", ".yaml", ".yml", ".genji", ".GENJI"}

\* The file names given: up to MaxPieces pieces.
FileNames == UNION {[1..k -> NamePieces] : k \in 1..MaxPieces}

\* What is at the path: nothing, something that cannot be read as text (a
\* directory), or a file.
FileKinds == {"missing", "unreadable", "file"}

\* The default_filter argument of from_file.
ExplicitFilters == {None, Some("raw")}

\* The contents of the files.
FileSources == {<<Lit("a")>>, <<Site(0, <<"p">>, NoParams, <<>>, FALSE)>>}

\* from_file / afrom_file, which differ in how the file is read only.
FileLoad(op) ==
    \E name \in FileNames, file \in FileKinds, explicit \in ExplicitFilters :
        LET call == [op |-> op, name |-> name, file |-> file,
                     explicit |-> explicit, raised |-> ""]
        IN  CASE file = "missing" ->
                    /\ file_call' = [call EXCEPT !.raised = "FileNotFoundError"]
                    /\ UNCHANGED TemplateVars
              [] file = "unreadable" ->
                    /\ file_call' = [call EXCEPT !.raised = "TemplateRenderError"]
                    /\ UNCHANGED TemplateVars
              [] file = "file" ->
                    /\ file_call' = call
                    /\ Build(FileSources, {detect_filter(name, explicit)}, Backends)

FromFile ==
    /\ ~constructed /\ file_call = NoFileCall
    /\ FileLoad("from_file")
    /\ UNCHANGED <<RenderVars, filter_call, registry, llm, mock>>

AFromFile ==
    /\ ~constructed /\ file_call = NoFileCall
    /\ FileLoad("afrom_file")
    /\ UNCHANGED <<RenderVars, filter_call, registry, llm, mock>>

InitFile == InitOn({1})

NextFile ==
    \/ FromFile
    \/ AFromFile

SpecFile == InitFile /\ [][NextFile]_vars

(***************************************************************************)
(* backends/litellm.py: LLMBackend                                         *)
(***************************************************************************)
\* a or b, for two optional numbers: a when it is truthy (not None, not 0).
PyOr(a, b) == IF a # None /\ a[1] # 0 THEN a ELSE b

\* LLMBackend._build_litellm_kwargs(request): the keyword arguments given to
\* the provider; an optional key is None when the dict does not have it.
build_litellm_kwargs(be, request) ==
    [prompt |-> request.prompt,
     temperature |-> PyOr(request.temperature, be.temperature),
     max_tokens |-> PyOr(request.max_tokens, be.max_tokens),
     stop |-> IF request.stop # None /\ request.stop[1] # <<>>
              THEN request.stop ELSE None]

\* The text the provider answers a prompt with, and _parse_response of it.
Completion(prompt) == <<"re">> \o prompt

\* What the provider call may raise: an error of the provider's library, or
\* a BackendError.
ProviderFailures == {Exc("APIError", <<"rate limit">>), Exc("BackendError", <<"bad">>)}

\* The handler of generate, a bug variant: the provider's exception is let
\* through as it is.
WrapProviderErrorNot(e) == e

\* The handler of generate and agenerate (lines 164-167, 227-230).
WrapProviderError(e) ==
    IF e.kind = "BackendError" THEN e
    ELSE [kind |-> "BackendError",
          msg |-> <<"LiteLLM generation failed: ">> \o e.msg,
          cause |-> e.kind]

\* raise BackendError(f"Batch generation failed for request {index}: {e}")
BatchErrorFrom(index, e) ==
    [kind |-> "BackendError",
     msg |-> <<"Batch generation failed for request ", ToString(index - 1)>>,
     cause |-> e.kind]

\* The parameters written on a gen call.
ParamChoices ==
    {NoParams, SomeParams,
     [max_tokens |-> Some(0), temperature |-> Some(1), stop |-> Some(<<>>)]}

\* The request made of the i-th prompt collected, gen having been given the
\* parameters.
GenRequest(i, params) ==
    to_request([placeholder |-> Placeholder(i - 1),
                prompt |-> <<"p" \o ToString(i)>>,
                source_id |-> None,
                max_tokens |-> params.max_tokens,
                temperature |-> params.temperature,
                stop |-> params.stop])

\* The request lists given to a batch operation.
RequestLists ==
    {[i \in 1..n |-> GenRequest(i, params)] : n \in 0..MaxBatch, params \in ParamChoices}

\* LLMBackend(model, temperature=..., max_tokens=...)
LlmConfigs ==
    {[NoLlm EXCEPT !.temperature = t, !.max_tokens = m] :
        t \in {None, Some(2)}, m \in {None, Some(7)}}

LlmOps == {"generate", "generate_batch", "agenerate", "agenerate_batch"}

\* The batch runs its requests on the thread pool (lines 189-205).
Threaded == llm.op = "generate_batch" /\ Len(llm.requests) > 1

LlmUnchanged == UNCHANGED <<TemplateVars, RenderVars, filter_call, registry, file_call, mock>>

\* An operation of the backend is called; a batch operation given no
\* request returns at once.
LlmStart ==
    /\ llm.pc = "idle"
    /\ \E op \in LlmOps, rs \in RequestLists :
         /\ op \in {"generate", "agenerate"} => Len(rs) = 1
         /\ llm' = IF rs = <<>>
                   THEN [llm EXCEPT !.op = op, !.pc = "done", !.result = Some(<<>>)]
                   ELSE [llm EXCEPT !.op = op, !.pc = "running", !.requests = rs,
                                    !.futures = [i \in 1..Len(rs) |->
                                                    [state |-> "pending", text |-> <<>>,
                                                     exc |-> NoError]],
                                    !.responses = [i \in 1..Len(rs) |-> None]]
    /\ LlmUnchanged

\* One call of generate / agenerate runs (on the caller's thread, a pool
\* thread or as a task): it builds the arguments, calls the provider and
\* returns the parsed response or raises.
ProviderCall ==
    /\ \E i \in 1..Len(llm.futures) :
         /\ llm.futures[i].state = "pending"
         /\ \E outcome \in {NoError} \cup ProviderFailures :
              llm' = [llm EXCEPT
                  !.provider_calls =
                      Append(@, [index |-> i,
                                 kwargs |-> build_litellm_kwargs(llm, llm.requests[i])]),
                  !.completed = Append(@, i),
                  !.futures[i] =
                      IF outcome = NoError
                      THEN [state |-> "returned",
                            text |-> Completion(llm.requests[i].prompt),
                            exc |-> NoError]
                      ELSE [state |-> "raised", text |-> <<>>,
                            exc |-> WrapProviderError(outcome)]]
    /\ LlmUnchanged

\* responses[index] = future.result(), a bug variant: the result is put in
\* the first free slot, in the order the futures complete.
StoreInCompletionOrder(slots, index, text) ==
    LET free == CHOOSE k \in 1..Len(slots) :
                    slots[k] = None /\ \A j \in 1..(k - 1) : slots[j] # None
    IN  [slots EXCEPT ![free] = Some(text)]

\* responses[index] = future.result()
StoreAtIndex(slots, index, text) == [slots EXCEPT ![index] = Some(text)]

\* One turn of the loop over as_completed (lines 196-203): a future that has
\* completed and was not yielded yet gives its result, or its exception ends
\* the batch.  Futures that completed before the loop asked for the next
\* one are yielded in no particular order.
LlmCollect ==
    /\ llm.pc = "running" /\ Threaded
    /\ \E index \in 1..Len(llm.futures) :
         LET f == llm.futures[index]
         IN  /\ f.state # "pending"
             /\ \A k \in 1..Len(llm.collected) : llm.collected[k] # index
             /\ llm' = IF f.state = "returned"
                       THEN [llm EXCEPT !.collected = Append(@, index),
                                        !.responses = StoreAtIndex(@, index, f.text)]
                       ELSE [llm EXCEPT !.pc = "errored",
                                        !.error = BatchErrorFrom(index, f.exc)]
    /\ LlmUnchanged

\* The operation returns: the comprehension of line 205 for the thread pool,
\* the list asyncio.gather made, or the one response.
LlmReturn ==
    /\ llm.pc = "running"
    /\ IF Threaded
       THEN /\ Len(llm.collected) = Len(llm.requests)
            /\ llm' = [llm EXCEPT !.pc = "done",
                                  !.result = Some(Flatten(llm.responses))]
       ELSE /\ \A i \in 1..Len(llm.futures) : llm.futures[i].state = "returned"
            /\ llm' = [llm EXCEPT !.pc = "done",
                                  !.result = Some([i \in 1..Len(llm.futures) |->
                                                      llm.futures[i].text])]
    /\ LlmUnchanged

\* The one call, or the first task of asyncio.gather to fail, raises: the
\* exception reaches the caller of the operation.
LlmRaise ==
    /\ llm.pc = "running" /\ ~Threaded
    /\ \E k \in 1..Len(llm.completed) :
         /\ llm.futures[llm.completed[k]].state = "raised"
         /\ \A j \in 1..(k - 1) : llm.futures[llm.completed[j]].state = "returned"
         /\ llm' = [llm EXCEPT !.pc = "errored",
                               !.error = llm.futures[llm.completed[k]].exc]
    /\ LlmUnchanged

InitLlm ==
    /\ InitRender({1})
    /\ filter_call = NoFilterCall
    /\ registry = FILTERS
    /\ file_call = NoFileCall
    /\ mock = NewMock
    /\ llm \in LlmConfigs

NextLlm ==
    \/ LlmStart
    \/ ProviderCall
    \/ LlmCollect
    \/ LlmReturn
    \/ LlmRaise

SpecLlm == InitLlm /\ [][NextLlm]_vars

(***************************************************************************)
(* backends/mock.py: MockBackend                                           *)
(***************************************************************************)
MaxCalls == 4

\* The response function a test hands to MockBackend: lambda p: f"Reply: {p}"
ReplyFn(prompt) == <<"Reply: ">> \o prompt

\* The text MockBackend.generate answers a prompt with.
mock_text(be, prompt) ==
    IF be.response_fn # None THEN ReplyFn(prompt)
    ELSE IF be.default_response # None THEN be.default_response[1]
    ELSE <<"[MOCK: ">> \o prompt \o <<"]">>

\* GenerationResponse(text=..., finish_reason="stop", usage={...})
MockResponse(be, request) ==
    [text |-> mock_text(be, request.prompt),
     finish_reason |-> "stop",
     usage |-> [prompt_tokens |-> Len(request.prompt),
                completion_tokens |-> Len(mock_text(be, request.prompt))]]

\* The bookkeeping of MockBackend.generate for one request.
mock_record(be, request) ==
    [be EXCEPT !.call_count = be.call_count + 1,
               !.last_request = Some(request),
               !.all_requests = Append(be.all_requests, request)]

RECURSIVE mock_record_all(_, _)
\* [self.generate(req) for req in requests]: the backend after the loop.
mock_record_all(be, requests) ==
    IF requests = <<>> THEN be
    ELSE mock_record_all(mock_record(be, Head(requests)), Tail(requests))

\* The requests the mock is called with.
MockRequests ==
    {to_request([placeholder |-> Placeholder(0), prompt |-> prompt,
                 source_id |-> None, max_tokens |-> params.max_tokens,
                 temperature |-> params.temperature, stop |-> params.stop]) :
        prompt \in {<<"a">>, <<"b", "c">>}, params \in {NoParams}}

MockRequestLists ==
    UNION {[1..n -> MockRequests] : n \in 0..MaxBatch}

\* The mocks a test builds.
MockConfigs ==
    {MockBackend(f, d) : f \in {None, Some("ReplyFn")},
                         d \in {None, Some(<<"d">>)}}

MockUnchanged ==
    UNCHANGED <<TemplateVars, RenderVars, filter_call, registry, file_call, llm>>

\* MockBackend.generate
MockGenerate ==
    /\ mock.call_count < MaxCalls
    /\ \E request \in MockRequests :
         mock' = [mock_record(mock, request) EXCEPT
                      !.op = "generate",
                      !.requests = <<request>>,
                      !.result = Some(MockResponse(mock, request)),
                      !.error = NoError]
    /\ MockUnchanged

\* MockBackend.generate_batch
MockGenerateBatch ==
    /\ mock.call_count < MaxCalls
    /\ \E requests \in MockRequestLists :
         /\ mock.call_count + Len(requests) <= MaxCalls
         /\ mock' = [mock_record_all(mock, requests) EXCEPT
                        !.op = "generate_batch",
                        !.requests = requests,
                        !.result = Some([i \in 1..Len(requests) |->
                                            MockResponse(mock, requests[i])]),
                        !.error = NoError]
    /\ MockUnchanged

\* The lookup of a method the class does not define.
MissingAttribute(be, op, requests) ==
    [be EXCEPT !.op = op,
               !.requests = requests,
               !.result = None,
               !.error = Exc("AttributeError",
                             <<"'MockBackend' object has no attribute '", op, "'">>)]

\* await backend.agenerate(request): MockBackend has no such method.
MockAGenerate ==
    /\ mock.call_count < MaxCalls
    /\ \E request \in MockRequests :
         mock' = MissingAttribute(mock, "agenerate", <<request>>)
    /\ MockUnchanged

\* await backend.agenerate_batch(requests): MockBackend has no such method.
MockAGenerateBatch ==
    /\ mock.call_count < MaxCalls
    /\ \E requests \in MockRequestLists :
         /\ mock.call_count + Len(requests) <= MaxCalls
         /\ mock' = MissingAttribute(mock, "agenerate_batch", requests)
    /\ MockUnchanged

InitMock ==
    /\ InitRender({1})
    /\ filter_call = NoFilterCall
    /\ registry = FILTERS
    /\ file_call = NoFileCall
    /\ llm = NoLlm
    /\ mock \in MockConfigs

NextMock ==
    \/ MockGenerate
    \/ MockGenerateBatch
    \/ MockAGenerate
    \/ MockAGenerateBatch

SpecMock == InitMock /\ [][NextMock]_vars

(***************************************************************************)
(* Pipelines as they are written: arguments, unknown names, nested calls   *)
(***************************************************************************)
\* The pipelines written on the call sites considered: none, two filters in
\* either order, a filter that adds characters before one that changes
\* letters, a name FILTERS does not have, truncate with an argument,
\* and truncate with a suffix argument that holds the character "|".
Pipelines ==
    {<<>>,
     <<Pipe("upper"), Pipe("lower")>>,
     <<Pipe("lower"), Pipe("upper")>>,
     <<Pipe("json"), Pipe("upper")>>,
     <<Pipe("nosuch")>>,
     <<Pipe("nosuch"), Pipe("upper")>>,
     <<Pipe("truncate")>>,
     <<PipeArg("truncate", <<"1">>)>>,
     <<PipeArg("truncate", <<"9", ",", Quote, "|", "upper", "|", Quote>>)>>}

\* Call sites with these pipelines, and call sites whose argument list holds
\* calls nested up to MaxDepth deep.
PipeSites ==
    {Site(0, <<"a">>, NoParams, pl, FALSE) : pl \in Pipelines}
        \cup {Site(d, <<"n">>, NoParams, <<Pipe("upper")>>, FALSE) : d \in 1..MaxDepth}

PipeSources ==
    UNION {[1..k -> PipeSites \cup {Lit("a")}] : k \in 1..2}

\* The texts the backend answers with: letters of both cases, so that upper
\* and lower and their order show, and more of them than truncate(1) allows.
PipeTexts == {<<"a", "B">>, <<"C", "d", "e", "F">>}

\* The batch operation answers every request with one of the texts.
BackendReturnPipes(p) ==
    /\ pc[p] = "generating"
    /\ \E rs \in [1..Len(calls[p][Len(calls[p])].requests) -> PipeTexts] :
         BackendAnswers(p, rs)

\* Template(source, backend) and Template(source, backend, default_filter="upper")
PipeDefaults == {None, Some("upper")}

\* render() with no keyword argument that matters.
PipeVars == {[name |-> None, items |-> 1]}

InitPipes == InitOn({1})

NextPipes ==
    \/ Construct(PipeSources, PipeDefaults, {[agenerate_batch |-> FALSE]})
    \/ \E p \in {1} :
         \/ StartRender(p, PipeVars)
         \/ EvalStep(p)
         \/ FinishCollecting(p)
         \/ BackendReturnPipes(p)
         \/ Interpolate(p)
         \/ Reset(p)

SpecPipes == InitPipes /\ [][NextPipes]_vars

(***************************************************************************)
(* A render inside a render                                                *)
(***************************************************************************)
\* Sources in which the evaluation renders another Template before, between
\* or behind gen() call sites.
NestedSources ==
    UNION {[1..k -> {RenderNode, Lit("a"),
                     Site(0, <<"p">>, NoParams, <<>>, FALSE),
                     Site(0, <<"q">>, NoParams, <<Pipe("upper")>>, FALSE)}] :
              k \in 1..MaxNodes}

InitNested == InitOn({1})

NextNested ==
    \/ Construct(NestedSources, DefaultFilters, Backends)
    \/ \E p \in {1} :
         \/ StartRender(p, PipeVars)
         \/ EvalStep(p)
         \/ NestedRender(p)
         \/ FinishCollecting(p)
         \/ BackendReturn(p)
         \/ BackendRaise(p)
         \/ Interpolate(p)
         \/ Reset(p)

SpecNested == InitNested /\ [][NextNested]_vars

(***************************************************************************)
(* Renders that run to their end                                           *)
(***************************************************************************)
\* Sources with literal text, a variable, a call site and a call site in a
\* loop.
LiveSources ==
    UNION {[1..k -> {Lit("a"), VarNode,
                     Site(0, <<"p">>, NoParams, <<>>, FALSE),
                     Site(0, <<"item">>, NoParams, <<Pipe("upper")>>, TRUE)}] :
              k \in 1..2}

InitLive == InitOn({1})

NextLive ==
    \/ Construct(LiveSources, DefaultFilters, Backends)
    \/ \E p \in {1} :
         \/ StartRender(p, VarChoices)
         \/ EvalStep(p)
         \/ FinishCollecting(p)
         \/ BackendReturn(p)
         \/ BackendRaise(p)
         \/ Cancel(p)
         \/ Interpolate(p)
         \/ Reset(p)

\* The step that leaves the interpolating phase.  Interpolate is the only
\* step of that phase and it can be taken in every state of the phase.
InterpolateEnds(p) ==
    /\ pc[p] = "interpolating"
    /\ \E v \in {"done", "errored"} : pc' = [pc EXCEPT ![p] = v]

\* Collecting and Interpolating are plain computation on the caller's path:
\* a step of them that can be taken is taken.  The backend's batch call,
\* once made, returns or raises.  Nothing obliges a caller to start a render
\* or a task to be cancelled.
SpecLive ==
    /\ InitLive
    /\ [][NextLive]_vars
    /\ WF_vars(EvalStep(1))
    /\ WF_vars(FinishCollecting(1))
    /\ WF_vars(BackendReturn(1) \/ BackendRaise(1))
    /\ WF_pc(InterpolateEnds(1))

(***************************************************************************)
(* A caller's own filter in the registry                                   *)
(***************************************************************************)
\* FILTERS["strict"] = ...: the caller adds its filter to the registry.
RegisterFilter ==
    /\ UserFilter \notin registry
    /\ registry' = registry \cup {UserFilter}
    /\ UNCHANGED <<TemplateVars, RenderVars, filter_call, file_call, llm, mock>>

\* Sources whose pipelines name the caller's filter, before and behind a
\* filter that changes the letters it looks for.
CustomSources ==
    {<<Site(0, <<"p">>, NoParams, <<Pipe(UserFilter), Pipe("upper")>>, FALSE),
       Site(0, <<"q">>, NoParams, <<>>, FALSE)>>,
     <<Site(0, <<"p">>, NoParams, <<Pipe("upper"), Pipe(UserFilter)>>, FALSE)>>,
     <<Site(0, <<"p">>, NoParams, <<Pipe("lower"), Pipe(UserFilter), Pipe("upper")>>, FALSE),
       Lit("a")>>,
     <<Lit("a"), Site(0, <<"p">>, NoParams, <<>>, FALSE)>>}

CustomDefaults == {None, Some(UserFilter)}

CustomVars == {[name |-> None, items |-> 1]}

\* The texts the backend answers with: one the caller's filter accepts, one
\* it rejects, one it rejects once put in lower case.
CheckedTexts == {<<"1">>, <<"x">>, <<"X">>}

\* The batch operation answers every request with one of the texts.
BackendReturnChecked(p) ==
    /\ pc[p] = "generating"
    /\ \E rs \in [1..Len(calls[p][Len(calls[p])].requests) -> CheckedTexts] :
         BackendAnswers(p, rs)

InitCustom == InitOn({1})

NextCustom ==
    \/ Construct(CustomSources, CustomDefaults, Backends)
    \/ RegisterFilter
    \/ \E p \in {1} :
         \/ StartRender(p, CustomVars)
         \/ EvalStep(p)
         \/ FinishCollecting(p)
         \/ BackendReturnChecked(p)
         \/ Interpolate(p)
         \/ Reset(p)

SpecCustom == InitCustom /\ [][NextCustom]_vars

(***************************************************************************)
(* filters.py: the filter functions called on their own                    *)
(***************************************************************************)
\* Texts of at most n characters of the alphabet.
TextsOver(alphabet, n) == UNION {[1..k -> alphabet] : k \in 0..n}

\* The characters html_filter and xml_filter replace, and two they keep.
MarkupAlphabet == {"&", "<", ">", Quote, "'", "a", ";"}

\* The characters yaml_filter looks at, letters that spell reserved words in
\* both cases, and one plain letter.
YamlAlphabet ==
    {" ", "\t", "\n", "\r", ":", "#", "-", "1", "n", "o", "N", Quote, Backslash, "a"}

\* The suffixes given to truncate: the default "..." and what is shorter.
TruncateSuffixes == {SubSeq(TruncateDefaultSuffix, 1, k) : k \in 0..3}

FilterCalls ==
    {[name |-> n, value |-> v, length |-> 0, suffix |-> <<>>, out |-> None] :
        n \in {"html", "xml"}, v \in TextsOver(MarkupAlphabet, MaxText)}
    \cup
    {[name |-> "yaml", value |-> v, length |-> 0, suffix |-> <<>>, out |-> None] :
        v \in TextsOver(YamlAlphabet, MaxText)}
    \cup
    {[name |-> "truncate", value |-> v, length |-> l, suffix |-> sf, out |-> None] :
        v \in TextsOver({"a", "b"}, MaxText + 2), l \in 0..MaxLength,
        sf \in TruncateSuffixes}

\* The call returns, or raises FilterError (ok FALSE).
FilterReturns(outcome) ==
    /\ filter_call.out = None
    /\ filter_call' = [filter_call EXCEPT !.out = Some(outcome)]
    /\ UNCHANGED <<TemplateVars, RenderVars, registry, file_call, llm, mock>>

CallHtml ==
    /\ filter_call.name = "html"
    /\ FilterReturns([ok |-> TRUE, text |-> html_filter(filter_call.value)])

CallXml ==
    /\ filter_call.name = "xml"
    /\ FilterReturns([ok |-> TRUE, text |-> xml_filter(filter_call.value)])

CallYaml ==
    /\ filter_call.name = "yaml"
    /\ FilterReturns([ok |-> TRUE, text |-> yaml_filter(filter_call.value)])

CallTruncate ==
    /\ filter_call.name = "truncate"
    /\ FilterReturns(truncate_filter(filter_call.value, filter_call.length,
                                     filter_call.suffix))

InitFilters ==
    /\ InitRender({1})
    /\ registry = FILTERS
    /\ file_call = NoFileCall
    /\ InitBackends
    /\ filter_call \in FilterCalls

NextFilters ==
    \/ CallHtml
    \/ CallXml
    \/ CallYaml
    \/ CallTruncate

SpecFilters == InitFilters /\ [][NextFilters]_vars

(***************************************************************************)
(* Properties                                                              *)
(***************************************************************************)
Paths == DOMAIN pc

\* The call of path p has left: it returned or it raised.
Left(p) == pc[p] \in {"done", "errored"}

\* The evaluation of the template ran to its end in the call of path p.
EvaluationCompleted(p) ==
    pc[p] \in {"generating", "interpolating", "done", "errored"}
        /\ pos[p] > Len(template)

\* The one batch call carries one request per collected prompt, the i-th
\* with the fields of the i-th prompt gen registered.
OneBatchCallFor(p) ==
    /\ Len(calls[p]) = 1
    /\ calls[p][1].op \in {"generate_batch", "agenerate_batch"}
    /\ Len(calls[p][1].requests) = Len(ctxs[p].prompts)
    /\ Len(issued[p]) = Len(ctxs[p].prompts)
    /\ \A i \in 1..Len(ctxs[p].prompts) :
         LET prompt == ctxs[p].prompts[i]
             request == calls[p][1].requests[i]
         IN  /\ prompt.placeholder = issued[p][i].placeholder
             /\ request.prompt = prompt.prompt
             /\ request.max_tokens = prompt.max_tokens
             /\ request.temperature = prompt.temperature
             /\ request.stop = prompt.stop

\* C1 as written: every render or arender call that collected N >= 1 prompts
\* invoked the batch operation exactly once, with the N requests of the N
\* prompts in evaluation order, and never the single-item generate.
C1_BatchOnceWheneverCollected ==
    \A p \in Paths :
        (Left(p) /\ Len(ctxs[p].prompts) >= 1) => OneBatchCallFor(p)

\* C1: every render or arender call whose template evaluation ran to its end
\* with N >= 1 prompts collected invokes the batch operation exactly once,
\* with the N requests of the N prompts in evaluation order; no call invokes
\* it more than once, nor the single-item generate.
C1_BatchOnceWhenEvaluated ==
    \A p \in Paths :
        /\ Len(calls[p]) <= 1
        /\ \A i \in 1..Len(calls[p]) :
             calls[p][i].op \in {"generate_batch", "agenerate_batch"}
        /\ (EvaluationCompleted(p) /\ Len(ctxs[p].prompts) >= 1)
               => OneBatchCallFor(p)

\* A call returned after two prompts with max_tokens, temperature and stop
\* went to the backend in one batch.
C1_Witness ==
    /\ pc[1] = "done"
    /\ Len(ctxs[1].prompts) = 2
    /\ Len(calls[1]) = 1
    /\ Len(calls[1][1].requests) = 2
    /\ calls[1][1].requests[2].stop = Some(<<"s">>)
    /\ calls[1][1].requests[2].max_tokens = Some(5)
    /\ calls[1][1].requests[1].prompt # calls[1][1].requests[2].prompt

\* The backend answered the batch call of path p with one response per
\* request, in the order of the requests.
PositionalResponses(p) ==
    Len(calls[p]) = 1 /\ calls[p][1].outcome = "returned"
        /\ Len(responses[p]) = Len(calls[p][1].requests)

\* The first-pass text of path p with every placeholder replaced, all at
\* once, by the response of its own prompt passed through the chain
\* _interpolate resolved for that prompt.
SubstitutedAtOnce(p) ==
    Flatten([t \in 1..Len(first_pass[p]) |->
        IF \E i \in 1..Len(issued[p]) : issued[p][i].placeholder = first_pass[p][t]
        THEN LET i == CHOOSE i \in 1..Len(issued[p]) :
                          issued[p][i].placeholder = first_pass[p][t]
             IN  ApplyChain(resolved[p][i].chain, responses[p][i]).text
        ELSE <<first_pass[p][t]>>])

\* C2 as written: when the backend's responses match its requests
\* positionally, the text render returns is the first-pass text with every
\* occurrence of the i-th placeholder replaced by the i-th response passed
\* through that prompt's resolved filter chain, the rest of the text unchanged.
C2_OutputIsPositionalSubstitution ==
    \A p \in Paths :
        (pc[p] = "done" /\ PositionalResponses(p))
            => result[p] = Returned(SubstitutedAtOnce(p))

\* The chain the source writes at node n: the names of its pipeline.
WrittenChain(n) == CleanedFilters(source[n].pipeline)

\* C3 as written: the call-site id stored on a CollectedPrompt is the id the
\* extractor injected at the source position that produced it, so the text
\* generated for a position is filtered with the chain recorded for that
\* position and never with the chain of another position.
C3_ChainOfOwnCallSite ==
    \A p \in Paths : \A i \in 1..Len(resolved[p]) :
        LET n == issued[p][i].node
        IN  /\ ctxs[p].prompts[i].source_id = template[n].source_id
            /\ (resolved[p][i].key + 1 \in DOMAIN filter_chains)
                   => /\ template[n].source_id = Some(resolved[p][i].key)
                      /\ resolved[p][i].recorded = WrittenChain(n)

\* The resolution rule of C4, case by case.
ChainByRule(recorded, default) ==
    CASE recorded # <<>> /\ recorded # <<"raw">> -> recorded
      [] recorded = <<>> /\ default # None -> <<default[1]>>
      [] recorded = <<"raw">> -> <<>>
      [] recorded = <<>> /\ default = None -> <<>>

C5_NoPromptsNoBackendCall ==
    \A p \in Paths :
        (EvaluationCompleted(p) /\ Len(ctxs[p].prompts) = 0)
            => /\ pc[p] = "done"
               /\ result[p] = Returned(first_pass[p])
               /\ calls[p] = <<>>

\* An arender of a source without a gen call returned the evaluated text and
\* invoked nothing.
C5_Witness ==
    /\ pc[1] = "done"
    /\ mode[1] = "arender"
    /\ ctxs[1].prompts = <<>>
    /\ calls[1] = <<>>
    /\ first_pass[1] = <<"a", "v">>
    /\ result[1] = Returned(<<"a", "v">>)

\* C6: however two renders interleave, every gen call registers its prompt on
\* the RenderContext of the render that evaluated it and on no other: the
\* prompts of a render are the ones its own evaluation issued, in order, its
\* counter counts them, and its generated map holds nothing but the responses
\* its own batch call returned for its own placeholders.
C6_RendersAreIsolated ==
    \A p \in Paths :
        /\ Len(ctxs[p].prompts) = Len(issued[p])
        /\ \A i \in 1..Len(issued[p]) :
             /\ ctxs[p].prompts[i].placeholder = issued[p][i].placeholder
             /\ ctxs[p].prompts[i].placeholder = Placeholder(i - 1)
        /\ ctxs[p].counter = Len(issued[p])
        /\ \A g \in 1..Len(ctxs[p].generated) :
             \E i \in 1..Len(issued[p]) :
                 /\ i <= Len(responses[p])
                 /\ ctxs[p].generated[g] =
                        <<issued[p][i].placeholder, responses[p][i]>>
        /\ (pc[p] = "collecting" => active[CtxSlot(p)] = Some(p))

\* Two renders are in flight at once, each with prompts of its own under the
\* same placeholder text: one waits for its backend while the other is still
\* collecting.
C6_Witness ==
    /\ DOMAIN pc = {1, 2}
    /\ pc[1] = "generating"
    /\ pc[2] = "collecting"
    /\ Len(ctxs[1].prompts) = 2
    /\ Len(ctxs[2].prompts) = 1
    /\ ctxs[1].prompts[1].placeholder = ctxs[2].prompts[1].placeholder
    /\ ctxs[1].variables # ctxs[2].variables

\* C7: once render or arender has returned or raised, whatever the phase, the
\* context variable of its path is unbound, and the render that follows on
\* the path starts from a RenderContext with counter 0, no prompt and an
\* empty generated map, with the Template as the earlier render found it: it
\* runs as if the earlier render had never run.
C7_BindingReleasedOnEveryExit ==
    /\ [](\A p \in Paths :
            /\ pc[p] \in {"idle", "done", "errored"} => active[CtxSlot(p)] = None
            /\ (pc[p] = "collecting" /\ pos[p] = 1 /\ iter[p] = 0)
                   => /\ ctxs[p].counter = 0
                      /\ ctxs[p].prompts = <<>>
                      /\ ctxs[p].generated = <<>>
                      /\ first_pass[p] = <<>>
                      /\ calls[p] = <<>>)
    /\ [][constructed => UNCHANGED TemplateVars]_vars

\* After a render that raised, the next render on the same path returned a
\* text built from a prompt numbered 0.
C7_Witness ==
    /\ failed_before[1]
    /\ pc[1] = "done"
    /\ active[CtxSlot(1)] = None
    /\ Len(ctxs[1].prompts) = 1
    /\ ctxs[1].prompts[1].placeholder = Placeholder(0)
    /\ result[1] = Returned(<<"r1">>)

\* C8: an arender cancelled while it waits for the batch operation leaves
\* with the cancellation itself, not turned into a TemplateRenderError, with
\* the context variable of its path already unbound and no text returned.
C8_CancellationReleasesBinding ==
    \A p \in Paths :
        (Len(calls[p]) = 1 /\ calls[p][1].outcome = "cancelled")
            => /\ pc[p] = "errored"
               /\ error[p] = Exc("CancelledError", <<>>)
               /\ active[CtxSlot(p)] = None
               /\ result[p] = NoResult

\* An arender was cancelled while its batch call was running on the event
\* loop.
C8_Witness ==
    /\ mode[1] = "arender"
    /\ Len(calls[1]) = 1
    /\ calls[1][1].outcome = "cancelled"
    /\ calls[1][1].op = "agenerate_batch"
    /\ pc[1] = "errored"
    /\ error[1].kind = "CancelledError"

\* C9: when the batch operation raises, for the batch or for one request of
\* it, render and arender raise TemplateRenderError with the message
\* "LLM backend generation failed: " followed by the backend's own message,
\* and return no text.
C9_BackendFailureIsRenderError ==
    \A p \in Paths :
        (Len(calls[p]) = 1 /\ calls[p][1].outcome = "raised")
            => /\ pc[p] = "errored"
               /\ error[p].kind = "TemplateRenderError"
               /\ error[p].msg = <<"LLM backend generation failed: ">>
                                     \o calls[p][1].exc.msg
               /\ error[p].cause = calls[p][1].exc.kind
               /\ result[p] = NoResult

\* The batch operation raised a plain RuntimeError under arender, through the
\* worker thread, and the caller got a TemplateRenderError.
C9_Witness ==
    /\ mode[1] = "arender"
    /\ Len(calls[1]) = 1
    /\ calls[1][1].outcome = "raised"
    /\ calls[1][1].on = "worker_thread"
    /\ calls[1][1].exc.kind = "RuntimeError"
    /\ error[1].kind = "TemplateRenderError"
    /\ error[1].msg = <<"LLM backend generation failed: ", "Backend failed">>

\* C10: a render that raised, in whatever phase, handed no text to its
\* caller, and no render invokes the batch operation a second time, whether
\* or not the first invocation failed.
C10_NoPartialResultNoRetry ==
    \A p \in Paths :
        /\ pc[p] = "errored" => (~result[p].returned /\ result[p].text = <<>>)
        /\ Len(calls[p]) <= 1

\* A render raised while interpolating, after the placeholder of its first
\* prompt had been substituted.
C10_Witness ==
    /\ pc[1] = "errored"
    /\ Len(ctxs[1].prompts) = 2
    /\ Len(responses[1]) = 1
    /\ Len(resolved[1]) = 1
    /\ error[1].kind = "KeyError"
    /\ result[1] = NoResult
    /\ Len(calls[1]) = 1

\* The least element of a non-empty set of integers.
Min(S) == CHOOSE x \in S : \A y \in S : x <= y

\* The call of path p raised while its template was being evaluated.
RaisedWhileCollecting(p) ==
    pc[p] = "errored" /\ mode[p] \in Modes /\ calls[p] = <<>>
        /\ pos[p] <= Len(template)

\* C11 as written: every failure raised while the template is evaluated, a
\* type error of an expression included, reaches the caller as
\* TemplateRenderError and as no other kind.
C11_CollectingFailuresAreRenderErrors ==
    \A p \in Paths :
        RaisedWhileCollecting(p) => error[p].kind = "TemplateRenderError"

\* The prompts of path p that node n of the template produced, as indexes
\* into the prompts of its RenderContext, in order.
PromptsOfNode(p, n) ==
    {i \in 1..Len(issued[p]) : issued[p][i].node = n}

\* C13 as written: a gen call site inside a loop of N iterations produces N
\* CollectedPrompt entries in iteration order, each with a placeholder of its
\* own, all carrying the id of that call site and so all filtered with the
\* chain recorded for it.
C13_LoopSiteSharesItsChain ==
    \A p \in Paths : \A n \in 1..Len(template) :
        (template[n].kind = "gen" /\ template[n].loop /\ pos[p] > n
            /\ mode[p] \in Modes /\ pc[p] # "idle")
        => LET made == PromptsOfNode(p, n)
           IN  /\ Cardinality(made) = ctxs[p].variables.items
               /\ \A i \in made :
                    /\ ctxs[p].prompts[i].prompt =
                           template[n].prompt \o <<ToString(i - Min(made) + 1)>>
                    /\ ctxs[p].prompts[i].source_id = template[n].source_id
                    /\ i <= Len(resolved[p])
                           => resolved[p][i].recorded = WrittenChain(n)
               /\ \A i, j \in made :
                    i # j => ctxs[p].prompts[i].placeholder
                                 # ctxs[p].prompts[j].placeholder

\* The steps the phase of one render call may take.  The call of a path ends
\* in "done" or "errored"; the step back to "idle" is the path taking up its
\* next call, never the finished call moving on.
PhaseSteps ==
    {<<"idle", "collecting">>, <<"collecting", "generating">>,
     <<"generating", "interpolating">>, <<"interpolating", "done">>,
     <<"collecting", "done">>,
     <<"collecting", "errored">>, <<"generating", "errored">>,
     <<"interpolating", "errored">>,
     <<"done", "idle">>, <<"errored", "idle">>}

\* C14: a render call moves only along Idle -> Collecting -> Generating ->
\* Interpolating -> Done, from Collecting straight to Done only when no
\* prompt was collected (and to Generating only when one was), may enter
\* Errored from any phase and is over once Done or Errored; the backend is
\* not invoked before the evaluation has finished, and no placeholder is
\* substituted before the batch call has returned.
C14_PhaseOrder ==
    /\ [][\A p \in Paths :
            pc'[p] # pc[p] =>
               /\ <<pc[p], pc'[p]>> \in PhaseSteps
               /\ <<pc[p], pc'[p]>> = <<"collecting", "done">>
                      => ctxs[p].prompts = <<>>
               /\ <<pc[p], pc'[p]>> = <<"collecting", "generating">>
                      => ctxs[p].prompts # <<>>
               /\ pc[p] \in {"done", "errored"}
                      => (result'[p] = NoResult /\ error'[p] = NoError)]_vars
    /\ [](\A p \in Paths :
            /\ pc[p] \in {"idle", "collecting"}
                  => (calls[p] = <<>> /\ ctxs[p].generated = <<>>)
            /\ calls[p] # <<>> => pos[p] > Len(template)
            /\ (resolved[p] # <<>> \/ (result[p].returned /\ ctxs[p].prompts # <<>>))
                  => (Len(calls[p]) = 1 /\ calls[p][1].outcome = "returned"))

\* A render went through all the phases and returned a text in which the
\* placeholders of two prompts are substituted.
C14_Witness ==
    /\ pc[1] = "done"
    /\ Len(ctxs[1].prompts) = 2
    /\ Len(resolved[1]) = 2
    /\ calls[1][1].outcome = "returned"
    /\ result[1].returned
    /\ failed_before[1]

\* C15: the Generating phase of arender invokes one batch operation: the
\* backend's agenerate_batch, awaited on the event loop, if and only if the
\* backend has it; otherwise generate_batch in a worker thread; never both,
\* and generate_batch never on the event-loop thread.
C15_AsyncBatchDispatch ==
    \A p \in Paths :
        (mode[p] = "arender" /\ calls[p] # <<>>)
            => /\ Len(calls[p]) = 1
               /\ backend.agenerate_batch
                      => (calls[p][1].op = "agenerate_batch"
                             /\ calls[p][1].on = "event_loop")
               /\ ~backend.agenerate_batch
                      => (calls[p][1].op = "generate_batch"
                             /\ calls[p][1].on = "worker_thread")

\* An arender on a backend without agenerate_batch got its responses from
\* generate_batch run in a worker thread.
C15_Witness ==
    /\ mode[1] = "arender"
    /\ ~backend.agenerate_batch
    /\ pc[1] = "done"
    /\ Len(calls[1]) = 1
    /\ calls[1][1].op = "generate_batch"
    /\ calls[1][1].on = "worker_thread"
    /\ calls[1][1].outcome = "returned"

\* The calls of paths p and q are over, p's a render and q's an arender of
\* the same template with the same variables, and what the backend did for
\* the one (the responses returned, or the exception raised) it did for the
\* other.
SameRunSyncAsync(p, q) ==
    /\ Left(p) /\ Left(q)
    /\ mode[p] = "render" /\ mode[q] = "arender"
    /\ ctxs[p].variables = ctxs[q].variables
    /\ (calls[p] # <<>> /\ calls[q] # <<>>)
           => /\ calls[p][1].outcome = calls[q][1].outcome
              /\ calls[p][1].exc = calls[q][1].exc
              /\ responses[p] = responses[q]

AllResolve(prompt, variables) ==
    \A i \in 1..Len(prompt) :
        prompt[i] \in References => (prompt[i] = "{name}" /\ variables.name # None)

\* C12 as written: gen substitutes the references of its prompt when all of
\* them resolve; when the substitution fails, whatever the way (a missing
\* key, a malformed reference, an attribute or index the value lacks), gen
\* registers the prompt as written and the render does not fail.
C12_FormatFailuresFallBack ==
    \A p \in Paths :
        /\ \A i \in 1..Len(issued[p]) :
             LET node == template[issued[p][i].node]
                 registered == ctxs[p].prompts[i].prompt
             IN  node.loop
                 \/ IF AllResolve(node.prompt, ctxs[p].variables)
                    THEN registered = [k \in 1..Len(node.prompt) |->
                                          IF node.prompt[k] = "{name}"
                                          THEN ctxs[p].variables.name[1]
                                          ELSE node.prompt[k]]
                    ELSE registered = node.prompt
        /\ ~(RaisedWhileCollecting(p) /\ template[pos[p]].kind = "gen")

\* The text the render of path p returns, worked out again from what it
\* collected and was answered.
RenderedText(p) ==
    IF ctxs[p].prompts = <<>> THEN first_pass[p]
    ELSE interpolate(first_pass[p], ctxs[p], filter_chains, default_filter).text

\* The render_json or arender_json call of path p raised because the rendered
\* text is not JSON.
JsonRejected(p) ==
    as_json[p] /\ pc[p] = "errored" /\ error[p].cause = "JSONDecodeError"

\* What C17 says of every kind of error: a call through render_json or
\* arender_json hands back the JSON value of exactly the text its render
\* returned; on a text that is not JSON it hands back nothing and raises with
\* a message that ends with the rendered text; a failure of the render is
\* what the caller gets, and nothing is parsed.
JsonCallContract(p) ==
    /\ parsed[p] # None
           => /\ as_json[p] /\ pc[p] = "done" /\ result[p].returned
              /\ json_loads(result[p].text).ok
              /\ parsed[p] = Some(json_loads(result[p].text).value)
    /\ (as_json[p] /\ pc[p] = "done" /\ ~json_loads(result[p].text).ok)
           => parsed[p] = None
    /\ JsonRejected(p)
           => /\ parsed[p] = None /\ result[p] = NoResult
              /\ ~json_loads(RenderedText(p)).ok
              /\ Len(error[p].msg) >= Len(RenderedText(p))
              /\ SubSeq(error[p].msg,
                        Len(error[p].msg) - Len(RenderedText(p)) + 1,
                        Len(error[p].msg)) = RenderedText(p)
    /\ (as_json[p] /\ pc[p] = "errored" /\ ~JsonRejected(p))
           => (parsed[p] = None /\ result[p] = NoResult
                  /\ error[p].cause # "JSONDecodeError")

\* C17 as written: render_json and arender_json return the JSON value of the
\* text render/arender returns; on a text that is not JSON they return nothing
\* and fail with an error kind distinct from the render-time kind,
\* TemplateRenderError, the message holding the rendered text; a failure of
\* the render propagates unchanged.
C17_JsonErrorIsDistinctKind ==
    \A p \in Paths :
        /\ JsonCallContract(p)
        /\ JsonRejected(p) => error[p].kind # "TemplateRenderError"

\* C17: render_json and arender_json return the JSON value of the text
\* render/arender returns; on a text that is not JSON they return nothing and
\* fail with TemplateRenderError, the render-time kind itself, raised from the
\* JSONDecodeError, the message holding the rendered text; a failure of the
\* render propagates unchanged.
C17_JsonErrorIsRenderError ==
    \A p \in Paths :
        /\ JsonCallContract(p)
        /\ JsonRejected(p) => error[p].kind = "TemplateRenderError"

\* An arender_json call rendered a text that is not JSON and raised.
C17_Witness ==
    /\ as_json[1]
    /\ mode[1] = "arender"
    /\ JsonRejected(1)
    /\ Len(ctxs[1].prompts) = 1
    /\ calls[1][1].outcome = "returned"
    /\ error[1].kind = "TemplateRenderError"
    /\ RenderedText(1) # <<>>

\* The JSON document with the text as a JSON string in the place of a
\* value, the way the object source of ApiSources reads once interpolated.
ObjectWith(quoted) == <<ObjectOpen>> \o quoted \o <<ObjectClose>>

\* C18: the json filter turns any text into a JSON string literal, surrounding
\* quotes and escapes included, non-ASCII characters kept as they are: put in
\* the place of a JSON value it makes a document that parses, and the parsed
\* value is the text; a render_json call whose generation site has the json
\* filter hands back the backend's text, whatever its characters.
C18_JsonFilterRoundTrips ==
    \A p \in Paths :
        /\ \A i \in 1..Len(responses[p]) :
             LET text == responses[p][i]
                 quoted == json_filter(text)
             IN  /\ Len(quoted) >= 2
                 /\ quoted[1] = Quote /\ quoted[Len(quoted)] = Quote
                 /\ \A k \in 1..Len(text) : text[k] = "é" =>
                        \E j \in 1..Len(quoted) : quoted[j] = "é"
                 /\ json_loads(quoted) = [ok |-> TRUE, value |-> [kind |-> "str", text |-> text]]
                 /\ json_loads(ObjectWith(quoted))
                        = [ok |-> TRUE, value |-> [kind |-> "obj", text |-> text]]
        /\ (/\ pc[p] = "done" /\ result[p].returned
            /\ Len(resolved[p]) = 1 /\ resolved[p][1].chain = <<"json">>
            /\ Len(responses[p]) = 1)
               => /\ first_pass[p] = <<ObjectOpen, "__GENJI_GEN_0__", ObjectClose>>
                      => json_loads(result[p].text)
                             = [ok |-> TRUE,
                                value |-> [kind |-> "obj", text |-> responses[p][1]]]
                  /\ first_pass[p] = <<"__GENJI_GEN_0__">>
                      => json_loads(result[p].text)
                             = [ok |-> TRUE,
                                value |-> [kind |-> "str", text |-> responses[p][1]]]

\* A render_json call handed back an object whose value is a backend text
\* with a quote and a backslash in it.
C18_Witness ==
    /\ as_json[1] /\ pc[1] = "done"
    /\ Len(responses[1]) = 1
    /\ \E i, j \in 1..Len(responses[1][1]) :
           responses[1][1][i] = Quote /\ responses[1][1][j] = Backslash
    /\ resolved[1][1].chain = <<"json">>
    /\ parsed[1] = Some([kind |-> "obj", text |-> responses[1][1]])

\* C19 as written: a gen called while no render is in progress on its path
\* fails with an error that is neither the construction-time parse failure
\* nor the render-time failure, and registers no prompt.
C19_GenOutsideRenderIsUsageError ==
    \A p \in Paths :
        (mode[p] = "gen" /\ pc[p] = "errored")
            => /\ error[p].kind \notin {"TemplateParseError", "TemplateRenderError"}
               /\ IsException(error[p].kind)
               /\ ctxs[p].prompts = <<>>
               /\ issued[p] = <<>>
               /\ calls[p] = <<>>

\* C20 as written: a source that is not well formed makes the construction
\* fail, with the construction-time parse failure kind, TemplateParseError;
\* no Template exists after it and no render starts on it.
C20_MalformedSourceIsParseError ==
    /\ init_error # NoError
           => /\ init_error.kind = "TemplateParseError"
              /\ ~constructed
    /\ ~constructed
           => \A p \in Paths : pc[p] = "idle" \/ mode[p] = "gen"

\* The filter call has returned or raised.
FilterCalled(name) == filter_call.name = name /\ filter_call.out # None

\* C26: truncate_filter(value, length, suffix) raises a filter error exactly
\* when length < len(suffix); otherwise it returns the input unchanged when
\* the input has at most length characters, and else the first
\* length - len(suffix) characters of the input followed by the suffix; what
\* it returns is never longer than length.
C26_TruncateContract ==
    FilterCalled("truncate") =>
        LET v == filter_call.value
            l == filter_call.length
            sf == filter_call.suffix
            out == filter_call.out[1]
        IN  /\ ~out.ok <=> l < Len(sf)
            /\ ~out.ok => out.text = <<>>
            /\ (out.ok /\ Len(v) <= l) => out.text = v
            /\ (out.ok /\ Len(v) > l) =>
                   /\ Len(out.text) = l
                   /\ \A i \in 1..(l - Len(sf)) : out.text[i] = v[i]
                   /\ \A j \in 1..Len(sf) : out.text[l - Len(sf) + j] = sf[j]
            /\ out.ok => Len(out.text) <= l

\* A text longer than the length was cut and a non-empty suffix appended.
C26_Witness ==
    /\ FilterCalled("truncate")
    /\ filter_call.suffix = <<".", ".">>
    /\ filter_call.length = 3
    /\ filter_call.value = <<"a", "b", "b", "a">>
    /\ filter_call.out = Some([ok |-> TRUE, text |-> <<"a", ".", ".">>])

\* The text read in lower case is one of yaml's reserved literals.
IsReservedLiteral(s) ==
    \E w \in YamlReserved :
        /\ Len(s) = Len(w)
        /\ \A i \in 1..Len(w) : s[i] = w[i] \/ s[i] = UpperTok(w[i])

\* The conditions the claim lists for quoting: leading or trailing whitespace
\* (space or tab, YAML's white space), a newline, a colon, a hash, a leading
\* digit, a leading hyphen, a reserved literal in any letter case.
ListedForQuoting(s) ==
    \/ \E i \in {1, Len(s)} \cap DOMAIN s : s[i] \in {" ", "\t"}
    \/ \E i \in DOMAIN s : s[i] \in {"\n", ":", "#"}
    \/ (s # <<>> /\ s[1] \in {"0", "1", "2", "3", "4", "5", "6", "7", "8", "9"})
    \/ (s # <<>> /\ s[1] = "-")
    \/ IsReservedLiteral(s)

\* The text between double quotes, with backslash, double quote, newline,
\* carriage return and tab escaped, each once.
DoubleQuoted(s) ==
    <<Quote>>
    \o Flatten([i \in 1..Len(s) |->
           CASE s[i] = Backslash -> <<Backslash, Backslash>>
             [] s[i] = Quote -> <<Backslash, Quote>>
             [] s[i] = "\n" -> <<Backslash, "n">>
             [] s[i] = "\r" -> <<Backslash, "r">>
             [] s[i] = "\t" -> <<Backslash, "t">>
             [] OTHER -> <<s[i]>>])
    \o <<Quote>>

EntityFor(name, c) ==
    CASE c = "&" -> AmpEntity
      [] c = "<" -> LtEntity
      [] c = ">" -> GtEntity
      [] c = Quote -> QuotEntity
      [] c = "'" -> IF name = "html" THEN HexAposEntity ELSE AposEntity

\* C28: the output of html_filter and of xml_filter has none of < > " ' in
\* raw form, and has & only as the first character of an entity the filter
\* wrote; each of & < > " ' of the input is replaced by exactly one entity,
\* every other character is kept, and no entity is escaped a second time.
C28_MarkupEscapedOnce ==
    \A name \in {"html", "xml"} :
        FilterCalled(name) =>
            LET v == filter_call.value
                o == filter_call.out[1].text
                five == {"&", "<", ">", Quote, "'"}
            IN  /\ filter_call.out[1].ok
                /\ \A j \in 1..Len(o) : o[j] \notin {"<", ">", Quote, "'"}
                /\ \A j \in 1..Len(o) : o[j] = "&" =>
                       \E c \in five :
                           LET e == EntityFor(name, c)
                           IN  /\ j + Len(e) - 1 <= Len(o)
                               /\ SubSeq(o, j, j + Len(e) - 1) = e
                /\ o = Flatten([i \in 1..Len(v) |->
                           IF v[i] \in five THEN EntityFor(name, v[i])
                                            ELSE <<v[i]>>])

\* xml_filter escaped a text that holds an ampersand and an apostrophe.
C28_Witness ==
    /\ FilterCalled("xml")
    /\ filter_call.value = <<"&", "'">>
    /\ filter_call.out = Some([ok |-> TRUE, text |-> AmpEntity \o AposEntity])

\* C21: if a filter of a prompt's resolved chain raises during Interpolating,
\* the render fails with TemplateRenderError, the message naming the filter
\* that raised; the filters behind it in the chain and the prompts behind
\* this one are not processed, and no output is returned.
C21_FilterFailureIsRenderError ==
    \A p \in Paths :
        \A k \in 1..Len(resolved[p]) :
            resolved[p][k].failed # "" =>
                LET e == resolved[p][k]
                    n == Len(e.called)
                    known == SelectSeq(e.chain, LAMBDA f : f \in registry)
                    given == ApplyChain(SubSeq(e.called, 1, n - 1), responses[p][k])
                IN  /\ n >= 1 /\ n <= Len(known)
                    /\ e.called = SubSeq(known, 1, n)
                    /\ e.called[n] = e.failed
                    /\ given.ok /\ ~ApplyFilter(e.failed, given.text).ok
                    /\ k = Len(resolved[p])
                    /\ k <= Len(ctxs[p].prompts)
                    /\ pc[p] = "errored"
                    /\ error[p].kind = "TemplateRenderError"
                    /\ \E i \in 1..Len(error[p].msg) : error[p].msg[i] = e.failed
                    /\ result[p] = NoResult

\* The caller's filter rejected the first of two generated texts: the upper
\* filter behind it was not called and the second prompt was not reached.
C21_Witness ==
    /\ pc[1] = "errored"
    /\ Len(ctxs[1].prompts) = 2
    /\ Len(resolved[1]) = 1
    /\ resolved[1][1].chain = <<UserFilter, "upper">>
    /\ resolved[1][1].called = <<UserFilter>>
    /\ resolved[1][1].failed = UserFilter
    /\ error[1].kind = "TemplateRenderError"

\* How many times the token stands in the text.
Occurrences(text, tok) == Cardinality({i \in DOMAIN text : text[i] = tok})

\* How many gen calls of the render of path p returned the token.
Emitted(p, tok) ==
    Cardinality({i \in DOMAIN issued[p] : issued[p][i].placeholder = tok})

\* The text _interpolate holds when it comes to substitute prompt k: the
\* evaluated text with the placeholders of the prompts before k replaced.
TextBefore(p, k) ==
    interpolate(first_pass[p],
                [ctxs[p] EXCEPT !.prompts = SubSeq(@, 1, k - 1)],
                filter_chains, default_filter).text

\* C29 as written: placeholder tokens never collide with other content: when
\* _interpolate substitutes the placeholder of a prompt, the only occurrences
\* of that token in the text it substitutes in are the ones the gen calls of
\* this render emitted, so no text that came from a literal, a variable value
\* or the generated text of another prompt is rewritten.
C29_PlaceholdersNeverCollide ==
    \A p \in Paths :
        \A k \in 1..Len(resolved[p]) :
            LET tok == ctxs[p].prompts[k].placeholder
            IN  Occurrences(TextBefore(p, k), tok) = Emitted(p, tok)

\* The two-piece endings that stand for each filter.
MarkersOf(kind) ==
    CASE kind = "json" -> {<<".json", ".genji">>}
      [] kind = "html" -> {<<".html", ".genji">>}
      [] kind = "xml" -> {<<".xml", ".genji">>}
      [] kind = "yaml" -> {<<".yaml", ".genji">>, <<".yml", ".genji">>}

\* The filters whose ending the file name holds.
KindsNamedBy(name) ==
    {kind \in {"json", "html", "xml", "yaml"} :
        \E m \in MarkersOf(kind), i \in 1..(Len(name) - 1) :
            name[i] = m[1] /\ name[i + 1] = m[2]}

\* What C25 says of the failures and of an explicit argument: a missing file
\* raises a file-not-found error and nothing is constructed; a file that is
\* there and read gives a Template, with the explicit default filter when one
\* was passed.
FileCallBasics ==
    /\ file_call.file = "missing"
           => (file_call.raised = "FileNotFoundError" /\ ~constructed)
    /\ file_call.file = "file"
           => /\ file_call.raised = "" /\ constructed
              /\ file_call.explicit # None => default_filter = file_call.explicit

\* C25 as written: from_file and afrom_file use the explicit default filter
\* when one is given; otherwise they select json, html, xml or yaml when the
\* file name contains .json.genji, .html.genji, .xml.genji, .yaml.genji or
\* .yml.genji, and no default filter for any other name; a missing file fails
\* with a file-not-found error before anything is constructed.
C25_FilterFromFileName ==
    file_call.op # "" =>
        /\ FileCallBasics
        /\ (file_call.file = "file" /\ file_call.explicit = None)
               => IF KindsNamedBy(file_call.name) = {}
                  THEN default_filter = None
                  ELSE default_filter \in {Some(k) : k \in KindsNamedBy(file_call.name)}

\* C25: the same, the file name being compared without regard to letter
\* case, and the first of json, html, xml, yaml being selected when the name
\* holds the endings of several.
C25_FilterFromLoweredFileName ==
    file_call.op # "" =>
        /\ FileCallBasics
        /\ (file_call.file = "file" /\ file_call.explicit = None)
               => LET lowered == [i \in 1..Len(file_call.name) |->
                                     LowerPiece(file_call.name[i])]
                      kinds == KindsNamedBy(lowered)
                  IN  default_filter =
                          IF "json" \in kinds THEN Some("json")
                          ELSE IF "html" \in kinds THEN Some("html")
                          ELSE IF "xml" \in kinds THEN Some("xml")
                          ELSE IF "yaml" \in kinds THEN Some("yaml")
                          ELSE None

\* afrom_file selected json for a file whose name has the ending in capitals.
C25_Witness ==
    /\ file_call.op = "afrom_file"
    /\ file_call.name = <<"t", ".JSON", ".GENJI">>
    /\ file_call.explicit = None
    /\ constructed
    /\ default_filter = Some("json")

\* The operation on the LLMBackend is one of the two batch operations.
BatchOperation == llm.op \in {"generate_batch", "agenerate_batch"}

\* C22: generate_batch and agenerate_batch of LLMBackend, when every item
\* succeeds, return as many responses as there are requests, response i made
\* from request i, in whatever order the workers or tasks complete; given no
\* request they return an empty list and call no provider.
C22_BatchKeepsRequestOrder ==
    BatchOperation =>
        /\ (\A i \in 1..Len(llm.futures) : llm.futures[i].state = "returned")
               => llm.pc # "errored"
        /\ llm.pc = "done"
               => /\ llm.result # None
                  /\ Len(llm.result[1]) = Len(llm.requests)
                  /\ \A i \in 1..Len(llm.requests) :
                         llm.result[1][i] = Completion(llm.requests[i].prompt)
                  /\ llm.requests = <<>> => llm.provider_calls = <<>>

\* The thread pool finished the last request first and its result was taken
\* first; the batch returned the responses in request order all the same.
C22_Witness ==
    /\ llm.op = "generate_batch"
    /\ llm.pc = "done"
    /\ Len(llm.requests) = MaxBatch
    /\ llm.completed[1] = MaxBatch
    /\ llm.collected[1] = MaxBatch
    /\ llm.result[1][1] = Completion(llm.requests[1].prompt)

\* C23: if a provider call inside generate, generate_batch, agenerate or
\* agenerate_batch of LLMBackend fails, the operation raises BackendError and
\* returns no response list, neither a partial nor a shorter one.
C23_ProviderFailureIsBackendError ==
    /\ (llm.pc \in {"done", "errored"}
        /\ \E i \in 1..Len(llm.futures) : llm.futures[i].state = "raised")
           => llm.pc = "errored"
    /\ llm.pc = "errored"
           => /\ llm.error.kind = "BackendError"
              /\ llm.result = None
              /\ \E i \in 1..Len(llm.futures) : llm.futures[i].state = "raised"

\* agenerate_batch raised BackendError for a provider error of one task
\* while another task had its response.
C23_Witness ==
    /\ llm.op = "agenerate_batch"
    /\ llm.pc = "errored"
    /\ llm.error.kind = "BackendError"
    /\ llm.error.cause = "APIError"
    /\ llm.result = None
    /\ \E i, j \in 1..Len(llm.futures) :
           llm.futures[i].state = "returned" /\ llm.futures[j].state = "raised"

\* C24 as written: the max_tokens, temperature and stop given on a gen call
\* are the ones of the backend request; LLMBackend sends the provider the
\* per-call max_tokens and temperature whenever they are present, 0 included,
\* and the backend-wide default only when the per-call value is absent.
C24_PerCallValueWins ==
    /\ \A i \in 1..Len(llm.requests) :
           \E params \in ParamChoices :
               /\ llm.requests[i].max_tokens = params.max_tokens
               /\ llm.requests[i].temperature = params.temperature
               /\ llm.requests[i].stop = params.stop
    /\ \A k \in 1..Len(llm.provider_calls) :
           LET request == llm.requests[llm.provider_calls[k].index]
               kwargs == llm.provider_calls[k].kwargs
           IN  /\ kwargs.temperature =
                      IF request.temperature # None THEN request.temperature
                                                    ELSE llm.temperature
               /\ kwargs.max_tokens =
                      IF request.max_tokens # None THEN request.max_tokens
                                                   ELSE llm.max_tokens

\* C30 as written: agenerate and agenerate_batch of MockBackend return what
\* generate and generate_batch return for the same requests, batch responses
\* in request order, and record every request: call_count and all_requests
\* grow by one per request.
C30_MockAsyncLikeSync ==
    [][(mock' # mock /\ mock'.op \in {"agenerate", "agenerate_batch"})
         => /\ mock'.error = NoError
            /\ mock'.result =
                   IF mock'.op = "agenerate"
                   THEN Some(MockResponse(mock, mock'.requests[1]))
                   ELSE Some([i \in 1..Len(mock'.requests) |->
                                 MockResponse(mock, mock'.requests[i])])
            /\ mock'.call_count = mock.call_count + Len(mock'.requests)
            /\ mock'.all_requests = mock.all_requests \o mock'.requests]_vars

\* The bookkeeping of one RenderContext: the counter counts the prompts, and
\* the k-th prompt (0-based) carries the placeholder of ordinal k.
ContextInOrder(ctx) ==
    /\ ctx.counter = Len(ctx.prompts)
    /\ \A k \in 1..Len(ctx.prompts) :
           ctx.prompts[k].placeholder = Placeholder(k - 1)
    /\ \A j, k \in 1..Len(ctx.prompts) :
           ctx.prompts[j].placeholder = ctx.prompts[k].placeholder => j = k

\* C31: throughout a render the context's counter equals the number of
\* collected prompts and never decreases, the k-th prompt carries the
\* placeholder of ordinal k, no two prompts share a placeholder, and a
\* prompt once appended is neither changed nor removed.
C31_ContextBookkeeping ==
    /\ [](\A p \in Paths : ContextInOrder(ctxs[p]))
    /\ [][\A p \in Paths :
            (pc[p] # "idle" /\ pc'[p] # "idle") =>
               /\ ctxs'[p].counter >= ctxs[p].counter
               /\ Len(ctxs'[p].prompts) >= Len(ctxs[p].prompts)
               /\ \A k \in 1..Len(ctxs[p].prompts) :
                      ctxs'[p].prompts[k] = ctxs[p].prompts[k]]_vars

\* A render that collected three prompts, from a call site in a loop and
\* from another call site, has returned.
C31_Witness ==
    /\ pc[1] = "done"
    /\ ctxs[1].counter = 3
    /\ Len(ctxs[1].prompts) = 3
    /\ \E j, k \in 1..Len(issued[1]) : issued[1][j].node # issued[1][k].node

\* C32 as written: the generated map is empty throughout Collecting; when
\* Interpolating begins it holds exactly one entry for the placeholder of
\* every collected prompt, whatever list the batch call returned, a shorter
\* or a longer one included; so no render ends with a KeyError for a missing
\* entry.
C32_GeneratedCoversPrompts ==
    \A p \in Paths :
        /\ pc[p] = "collecting" => ctxs[p].generated = <<>>
        /\ pc[p] = "interpolating"
              => /\ Len(ctxs[p].generated) = Len(ctxs[p].prompts)
                 /\ \A k \in 1..Len(ctxs[p].prompts) :
                        has_generated(ctxs[p].generated, ctxs[p].prompts[k].placeholder)
        /\ pc[p] = "errored" => error[p].kind # "KeyError"

\* The call sites of the source the extractor recognised: those that carry
\* an injected id in the rewritten source.
Recognised == {i \in 1..Len(template) : template[i].source_id # None}

\* The filter names written in a pipeline, in written order.
WrittenNames(pipeline) == [j \in 1..Len(pipeline) |-> pipeline[j].name]

\* C33 as written: for a source with k recognised call sites the table has
\* the keys 0..k-1, id i is injected into the i-th recognised call site from
\* the left, the chain recorded for a call site is the sequence of bare filter
\* names of its pipeline in written order (empty without a pipeline), the
\* rewritten source has no pipeline at a recognised call site, and everything
\* else in the source is unchanged.
C33_ExtractorTable ==
    constructed =>
        /\ Len(template) = Len(source)
        /\ Len(filter_chains) = Cardinality(Recognised)
        /\ \A i \in 1..Len(source) :
               IF i \in Recognised
               THEN LET id == Cardinality({j \in Recognised : j < i})
                    IN  /\ source[i].kind = "gen"
                        /\ template[i].source_id = Some(id)
                        /\ ChainGet(filter_chains, id) = WrittenNames(source[i].pipeline)
                        /\ template[i].pipeline = <<>>
                        /\ template[i] = [source[i] EXCEPT !.pipeline = <<>>,
                                                           !.source_id = Some(id)]
               ELSE template[i] = source[i]

RECURSIVE Piped(_, _)
\* The text that comes out when raw is passed through the filters named,
\* the first one first: the last filter applied to what the ones before it
\* made of raw.
Piped(names, raw) ==
    IF names = <<>> THEN raw
    ELSE ApplyFilter(names[Len(names)],
                     Piped(SubSeq(names, 1, Len(names) - 1), raw)).text

\* The filters of a chain that the registry has, in the order of the chain.
Registered(chain) == SelectSeq(chain, LAMBDA n : n \in registry)

\* C34: the filters of a prompt's resolved chain are applied to its generated
\* text one after another in the order of the chain, which is the order they
\* were written in, the first on the raw backend text and each on the output
\* of the one before; the last one's output is what is substituted.
C34_FiltersApplyInWrittenOrder ==
    \A p \in Paths :
        (pc[p] = "done" /\ resolved[p] # <<>>) =>
            /\ \A k \in 1..Len(resolved[p]) :
                   resolved[p][k].called = Registered(resolved[p][k].chain)
            /\ result[p].text =
                   Flatten([t \in 1..Len(first_pass[p]) |->
                       IF \E k \in 1..Len(ctxs[p].prompts) :
                              ctxs[p].prompts[k].placeholder = first_pass[p][t]
                       THEN LET k == CHOOSE k \in 1..Len(ctxs[p].prompts) :
                                        ctxs[p].prompts[k].placeholder = first_pass[p][t]
                            IN  Piped(resolved[p][k].called, responses[p][k])
                       ELSE <<first_pass[p][t]>>])

\* A render substituted a text that went through lower and then upper, which
\* is not what upper and then lower make of it.
C34_Witness ==
    /\ pc[1] = "done"
    /\ source[1].kind = "gen"
    /\ WrittenNames(source[1].pipeline) = <<"lower", "upper">>
    /\ resolved[1] # <<>>
    /\ resolved[1][1].called = <<"lower", "upper">>
    /\ responses[1][1] = <<"a", "B">>
    /\ result[1].text[1] = "A"
    /\ result[1].text[2] = "B"

\* The chain the table records for call-site id 0, empty without an entry 0.
ChainOfSiteZero == IF filter_chains = <<>> THEN <<>> ELSE filter_chains[1]

\* C35: a prompt whose CollectedPrompt carries no call-site id has its chain
\* resolved as the chain recorded for id 0, or the empty chain if the table
\* has no entry 0, and the default/raw rule is then applied to it as to any
\* other chain.
C35_NoIdFallsBackToSiteZero ==
    \A p \in Paths :
        \A k \in 1..Len(resolved[p]) :
            ctxs[p].prompts[k].source_id = None =>
                /\ resolved[p][k].key = 0
                /\ resolved[p][k].recorded = ChainOfSiteZero
                /\ resolved[p][k].chain =
                       IF ChainOfSiteZero = <<>>
                       THEN (IF default_filter = None THEN <<>>
                             ELSE <<default_filter[1]>>)
                       ELSE IF ChainOfSiteZero = <<"raw">> THEN <<>>
                       ELSE ChainOfSiteZero

\* The prompt of a call site the extractor did not recognise was filtered
\* with the non-empty chain of call site 0, another call site.
C35_Witness ==
    /\ pc[1] = "done"
    /\ Len(resolved[1]) = 2
    /\ template[issued[1][2].node].kind = "gen"
    /\ template[issued[1][2].node].source_id = None
    /\ template[issued[1][1].node].source_id = Some(0)
    /\ ctxs[1].prompts[2].source_id = None
    /\ resolved[1][2].chain = filter_chains[1]
    /\ resolved[1][2].chain # <<>>

\* The argument list of the call site holds parentheses of its own.
HasNestedParens(node) ==
    node.kind = "gen" /\ \E j \in 1..Len(node.args) : node.args[j] = "("

\* C36 as written: a call site whose argument list holds nested parentheses,
\* to any depth, is recognised as a whole: it gets the call-site id of its
\* position among the call sites, and its pipeline is recorded under that id
\* and removed from the rewritten source, like that of any other call site.
C36_NestedParenthesesAreBalanced ==
    constructed =>
        \A i \in 1..Len(source) :
            HasNestedParens(source[i]) =>
                LET id == Cardinality({j \in 1..(i - 1) : source[j].kind = "gen"})
                IN  /\ template[i].source_id = Some(id)
                    /\ template[i].pipeline = <<>>
                    /\ ChainGet(filter_chains, id) = WrittenNames(source[i].pipeline)

\* C37 as written: when another render call started and finished on the
\* same path while this render is Collecting, this render's RenderContext is
\* still the active context afterwards, its later gen calls register on its
\* own context, and it completes as it would have without the other call:
\* throughout Collecting the context bound on the path is this render's, and
\* no gen call of it fails for want of a context.
C37_OuterContextSurvivesInnerRender ==
    \A p \in Paths :
        /\ pc[p] = "collecting" => active[CtxSlot(p)] = Some(p)
        /\ pc[p] = "errored" => error[p] # NoContextError
        /\ (pc[p] \in {"generating", "interpolating", "done"}
                /\ pos[p] > Len(template))
              => Len(ctxs[p].prompts) = Len(issued[p])

\* The pipeline written on the call site names a filter FILTERS does not have.
NamesUnknownFilter(node) ==
    node.kind = "gen"
        /\ \E j \in 1..Len(node.pipeline) : node.pipeline[j].name \notin registry

\* C38 as written: a pipeline naming a filter that is not in the registry
\* raises nothing at construction or at render; the name is skipped during
\* Interpolating, and the recorded chain being non-empty, the default filter
\* is not applied to that call site's generated text either: the filters
\* called on it are the registered ones of its own pipeline and no other.
C38_UnknownFilterIsSkipped ==
    /\ init_error = NoError
    /\ \A p \in Paths :
          (\E i \in 1..Len(source) : NamesUnknownFilter(source[i])) =>
              /\ pc[p] # "errored"
              /\ \A k \in 1..Len(resolved[p]) :
                     NamesUnknownFilter(source[issued[p][k].node]) =>
                         resolved[p][k].called =
                             Registered(WrittenNames(source[issued[p][k].node].pipeline))

\* The filter names written on the call site whose chain every lookup with
\* key 0 finds: the first call site the extractor recognised.
NamesOfSiteZero ==
    IF Recognised = {} THEN <<>>
    ELSE WrittenNames(source[Min(Recognised)].pipeline)

\* C39 as written: arguments written on a filter in a pipeline have no
\* effect on the output: the filters called are those the names alone
\* select, each is called on the text alone, truncate therefore with its
\* default length and suffix, and no render fails in a filter.
C39_FilterArgumentsAreIgnored ==
    \A p \in Paths :
        /\ pc[p] # "errored"
        /\ \A k \in 1..Len(resolved[p]) :
               resolved[p][k].called =
                   Registered(ChainByRule(NamesOfSiteZero, default_filter))
        /\ (pc[p] = "done" /\ resolved[p] # <<>>) =>
               result[p].text =
                   Flatten([t \in 1..Len(first_pass[p]) |->
                       IF \E k \in 1..Len(ctxs[p].prompts) :
                              ctxs[p].prompts[k].placeholder = first_pass[p][t]
                       THEN LET k == CHOOSE k \in 1..Len(ctxs[p].prompts) :
                                        ctxs[p].prompts[k].placeholder = first_pass[p][t]
                            IN  Piped(Registered(ChainByRule(NamesOfSiteZero,
                                                             default_filter)),
                                      responses[p][k])
                       ELSE <<first_pass[p][t]>>])

\* The evaluation has moved on: to a later node, or to a later iteration of
\* the loop at the same node.
MovedOn(p) ==
    \/ pos'[p] > pos[p]
    \/ pos'[p] = pos[p] /\ iter'[p] > iter[p]

\* C40: every render or arender call that has started eventually reaches
\* Done or Errored with the ambient context unbound, given that the backend's
\* batch call returns or raises; every step of Collecting moves the
\* evaluation on, so that Collecting ends after as many steps as there are
\* nodes and loop iterations, and Interpolating is over in one pass, its next
\* phase being Done or Errored.
C40_RendersTerminate ==
    /\ \A p \in {1} :
          (pc[p] = "collecting") ~> (Left(p) /\ active[CtxSlot(p)] = None)
    /\ [][\A p \in Paths :
            /\ (pc[p] = "collecting" /\ pc'[p] = "collecting") => MovedOn(p)
            /\ (pc[p] = "collecting" /\ pc'[p] = "collecting")
                   => pos'[p] <= Len(template) + 1
            /\ (pc[p] = "interpolating" /\ pc'[p] # pc[p])
                   => (Left(p)' /\ Len(resolved'[p]) <= Len(ctxs[p].prompts))]_vars

\* An arender over two call sites, one of them in a loop of two items, has
\* been through all phases and has returned with the context unbound.
C40_Witness ==
    /\ pc[1] = "done"
    /\ mode[1] = "arender"
    /\ active[CtxSlot(1)] = None
    /\ Len(ctxs[1].prompts) = 3
    /\ Len(resolved[1]) = 3
    /\ calls[1][1].outcome = "returned"

====
